---- MODULE Spec2Model ----
(***************************************************************************)
(* A model of the mica scripting language: lexer, parser, compiler and     *)
(* register virtual machine, driven by a host through the embedding       *)
(* interface (mica_new, mica_register_native, mica_compile, mica_run).     *)
(*                                                                         *)
(* Source text is a TLA+ string; the character at position i is            *)
(* SubSeq(src, i, i) and the terminating NUL is the empty string.          *)
(***************************************************************************)
EXTENDS Integers, Sequences, FiniteSets, TLC

(***************************************************************************)
(* Lexer (lexer.c)                                                         *)
(***************************************************************************)

\* *lex->current at position i; the NUL terminator past the last character
CharAt(src, i) == IF i >= 1 /\ i <= Len(src) THEN SubSeq(src, i, i) ELSE ""

isdigit(c) == c \in {"0", "1", "2", "3", "4", "5", "6", "7", "8", "9"}

isalpha(c) ==
    c \in {"a", "b", "c", "d", "e", "f", "g", "h", "i", "j", "k", "l", "m",
           "n", "o", "p", "q", "r", "s", "t", "u", "v", "w", "x", "y", "z",
           "A", "B", "C", "D", "E", "F", "G", "H", "I", "J", "K", "L", "M",
           "N", "O", "P", "Q", "R", "S", "T", "U", "V", "W", "X", "Y", "Z"}

isalnum(c) == isalpha(c) \/ isdigit(c)

\* a Lexer is [current, line]; lex->start is passed along as `start`
make_token(src, start, lex, type) ==
    [type |-> type, text |-> SubSeq(src, start, lex.current - 1), line |-> lex.line]

error_token(lex, message) ==
    [type |-> "TOK_ERROR", text |-> message, line |-> lex.line]

RECURSIVE skip_whitespace(_, _)
skip_whitespace(src, lex) ==
    LET c == CharAt(src, lex.current) IN
    IF c \in {" ", "\r", "\t"}
    THEN skip_whitespace(src, [lex EXCEPT !.current = @ + 1])
    ELSE IF c = "\n"
    THEN skip_whitespace(src, [current |-> lex.current + 1, line |-> lex.line + 1])
    ELSE IF c = "/" /\ CharAt(src, lex.current + 1) = "/"
    THEN LET RECURSIVE toEol(_)
             toEol(i) == IF CharAt(src, i) # "\n" /\ CharAt(src, i) # ""
                         THEN toEol(i + 1) ELSE i
         IN skip_whitespace(src, [lex EXCEPT !.current = toEol(lex.current)])
    ELSE lex

\* the first position at or after i whose character is not a digit
RECURSIVE SkipDigits(_, _)
SkipDigits(src, i) == IF isdigit(CharAt(src, i)) THEN SkipDigits(src, i + 1) ELSE i

\* called after the first digit has been consumed; returns <<token, lexer>>
read_number(src, start, lex) ==
    LET i == SkipDigits(src, lex.current) IN
    IF CharAt(src, i) = "." /\ isdigit(CharAt(src, i + 1))
    THEN LET l2 == [lex EXCEPT !.current = SkipDigits(src, i + 1)]
         IN <<make_token(src, start, l2, "TOK_FLOAT"), l2>>
    ELSE LET l2 == [lex EXCEPT !.current = i]
         IN <<make_token(src, start, l2, "TOK_INT"), l2>>

\* called after the opening quote has been consumed
RECURSIVE read_string(_, _, _)
read_string(src, start, lex) ==
    LET c == CharAt(src, lex.current) IN
    IF c # "\"" /\ c # ""
    THEN read_string(src, start,
                     [current |-> lex.current + 1,
                      line |-> IF c = "\n" THEN lex.line + 1 ELSE lex.line])
    ELSE IF c = ""
    THEN <<error_token(lex, "unterminated string"), lex>>
    ELSE LET l2 == [lex EXCEPT !.current = @ + 1]
         IN <<make_token(src, start, l2, "TOK_STRING"), l2>>

\* the lexeme is src[start .. cur-1]; `at` and `length` locate `rest` in it
check_keyword(src, start, cur, at, length, rest, type) ==
    IF cur - start = at + length
       /\ SubSeq(src, start + at, start + at + length - 1) = rest
    THEN type ELSE "TOK_IDENT"

ident_type(src, start, cur) ==
    LET c0 == CharAt(src, start)
        c1 == CharAt(src, start + 1)
        long == cur - start > 1
    IN CASE c0 = "b" -> check_keyword(src, start, cur, 1, 4, "reak", "TOK_BREAK")
         [] c0 = "e" -> check_keyword(src, start, cur, 1, 3, "lse", "TOK_ELSE")
         [] c0 = "f" /\ long /\ c1 = "a" ->
                check_keyword(src, start, cur, 2, 3, "lse", "TOK_FALSE")
         [] c0 = "f" /\ long /\ c1 = "n" -> "TOK_FN"
         [] c0 = "f" /\ long /\ c1 = "o" ->
                check_keyword(src, start, cur, 2, 1, "r", "TOK_FOR")
         [] c0 = "i" /\ long /\ c1 = "f" -> "TOK_IF"
         [] c0 = "i" /\ long /\ c1 = "n" -> "TOK_IN"
         [] c0 = "l" /\ long /\ c1 = "e" ->
                check_keyword(src, start, cur, 2, 1, "t", "TOK_LET")
         [] c0 = "l" /\ long /\ c1 = "o" ->
                check_keyword(src, start, cur, 2, 2, "op", "TOK_LOOP")
         [] c0 = "m" /\ long /\ c1 = "a" ->
                check_keyword(src, start, cur, 2, 3, "tch", "TOK_MATCH")
         [] c0 = "m" /\ long /\ c1 = "u" ->
                check_keyword(src, start, cur, 2, 1, "t", "TOK_MUT")
         [] c0 = "r" -> check_keyword(src, start, cur, 1, 5, "eturn", "TOK_RETURN")
         [] c0 = "t" -> check_keyword(src, start, cur, 1, 3, "rue", "TOK_TRUE")
         [] c0 = "w" -> check_keyword(src, start, cur, 1, 4, "hile", "TOK_WHILE")
         [] c0 = "N" -> check_keyword(src, start, cur, 1, 3, "one", "TOK_NONE")
         [] OTHER -> "TOK_IDENT"

RECURSIVE SkipIdent(_, _)
SkipIdent(src, i) ==
    IF isalnum(CharAt(src, i)) \/ CharAt(src, i) = "_" THEN SkipIdent(src, i + 1) ELSE i

read_ident(src, start, lex) ==
    LET l2 == [lex EXCEPT !.current = SkipIdent(src, lex.current)]
    IN <<make_token(src, start, l2, ident_type(src, start, l2.current)), l2>>

\* one-character tokens of next_token's switch
SingleCharType(c) ==
    CASE c = "(" -> "TOK_LPAREN"   [] c = ")" -> "TOK_RPAREN"
      [] c = "{" -> "TOK_LBRACE"   [] c = "}" -> "TOK_RBRACE"
      [] c = "[" -> "TOK_LBRACKET" [] c = "]" -> "TOK_RBRACKET"
      [] c = "," -> "TOK_COMMA"    [] c = "." -> "TOK_DOT"
      [] c = ":" -> "TOK_COLON"    [] c = ";" -> "TOK_SEMICOLON"
      [] c = "+" -> "TOK_PLUS"     [] c = "*" -> "TOK_STAR"
      [] c = "%" -> "TOK_PERCENT"  [] c = "|" -> "TOK_PIPE"
      [] c = "/" -> "TOK_SLASH"
      [] OTHER -> "none"

\* returns <<token, lexer>>
next_token(src, lex0) ==
    LET lex == skip_whitespace(src, lex0)
        start == lex.current
        c == CharAt(src, start)
        l1 == [lex EXCEPT !.current = @ + 1]
        l2 == [lex EXCEPT !.current = @ + 2]
        n == CharAt(src, start + 1)
        two(ch, t2, t1) == IF n = ch THEN <<make_token(src, start, l2, t2), l2>>
                           ELSE <<make_token(src, start, l1, t1), l1>>
    IN CASE c = "" -> <<make_token(src, start, lex, "TOK_EOF"), lex>>
         [] isdigit(c) -> read_number(src, start, l1)
         [] isalpha(c) \/ c = "_" -> read_ident(src, start, l1)
         [] SingleCharType(c) # "none" ->
                <<make_token(src, start, l1, SingleCharType(c)), l1>>
         [] c = "-" -> two(">", "TOK_ARROW", "TOK_MINUS")
         [] c = "=" /\ n = "=" -> <<make_token(src, start, l2, "TOK_EQ"), l2>>
         [] c = "=" /\ n # "=" -> two(">", "TOK_RARROW", "TOK_ASSIGN")
         [] c = "!" -> two("=", "TOK_NE", "TOK_ERROR")
         [] c = "<" -> two("=", "TOK_LE", "TOK_LT")
         [] c = ">" -> two("=", "TOK_GE", "TOK_GT")
         [] c = "\"" -> read_string(src, start, l1)
         [] OTHER -> <<error_token(l1, "unexpected character"), l1>>

lexer_init == [current |-> 1, line |-> 1]

\* one more next_token on [toks, lex, done], unless TOK_EOF has been returned
LexStep(src, st) ==
    IF st.done THEN st
    ELSE LET r == next_token(src, st.lex)
         IN [toks |-> Append(st.toks, r[1]), lex |-> r[2],
             done |-> r[1].type = "TOK_EOF"]

\* LexStep repeated until done, at most n times (n >= 1), by halves
RECURSIVE LexSteps(_, _, _)
LexSteps(src, st, n) ==
    IF n <= 1 THEN LexStep(src, st)
    ELSE LET half == LexSteps(src, st, n \div 2)
         IN IF half.done THEN half ELSE LexSteps(src, half, n - n \div 2)

\* the tokens the parser is handed, up to and including TOK_EOF; every token
\* but TOK_EOF takes at least one character
Tokens(src) ==
    LexSteps(src, [toks |-> <<>>, lex |-> lexer_init, done |-> FALSE], Len(src) + 1).toks

(***************************************************************************)
(* Parser (parser.c)                                                       *)
(*                                                                         *)
(* A Parser is [toks, cur, previous, had_error, panic_mode, errors, hang]: *)
(* toks is the token stream of the source, toks[cur] is parser.current,    *)
(* errors lists the messages written to stderr, and hang records that a    *)
(* statement loop has repeated an iteration that changed nothing, so that  *)
(* the C loop never ends.  Parse functions return [n |-> node, p |-> parser].*)
(***************************************************************************)

PREC_NONE == 0
PREC_ASSIGNMENT == 1
PREC_OR == 2
PREC_AND == 3
PREC_EQUALITY == 4
PREC_COMPARISON == 5
PREC_TERM == 6
PREC_FACTOR == 7
PREC_UNARY == 8

Current(p) == p.toks[p.cur]

\* error, error_current: the first report sets panic mode, later ones are dropped
error_at(p, message) ==
    IF p.panic_mode THEN p
    ELSE [p EXCEPT !.panic_mode = TRUE, !.had_error = TRUE,
                   !.errors = Append(@, message)]

RECURSIVE SkipErrorTokens(_, _)
SkipErrorTokens(p, i) ==
    IF p.toks[i].type = "TOK_ERROR"
    THEN SkipErrorTokens(error_at(p, p.toks[i].text), i + 1)
    ELSE [p EXCEPT !.cur = i]

\* the lexer keeps returning TOK_EOF once it is at the end
advance(p) ==
    SkipErrorTokens([p EXCEPT !.previous = Current(p)],
                    IF Current(p).type = "TOK_EOF" THEN p.cur ELSE p.cur + 1)

check(p, type) == Current(p).type = type

consume(p, type, message) ==
    IF check(p, type) THEN advance(p) ELSE error_at(p, message)

Digit(c) ==
    CASE c = "0" -> 0 [] c = "1" -> 1 [] c = "2" -> 2 [] c = "3" -> 3
      [] c = "4" -> 4 [] c = "5" -> 5 [] c = "6" -> 6 [] c = "7" -> 7
      [] c = "8" -> 8 [] c = "9" -> 9

\* strtol(text, NULL, 10) on the digits of a TOK_INT; the literals of the
\* programs considered are far below 2^31, so the int32_t holds the value
RECURSIVE DecimalValue(_, _, _)
DecimalValue(text, i, acc) ==
    IF i > Len(text) \/ ~isdigit(CharAt(text, i)) THEN acc
    ELSE DecimalValue(text, i + 1, acc * 10 + Digit(CharAt(text, i)))

new_int(text) == [type |-> "AST_INT", int_val |-> DecimalValue(text, 1, 0)]

\* strtof on a TOK_FLOAT; a float is held in thousandths
new_float(text) ==
    LET dot == SkipDigits(text, 1)
        frac(k) == IF dot + k <= Len(text) THEN Digit(CharAt(text, dot + k)) ELSE 0
    IN [type |-> "AST_FLOAT",
        float_val |-> DecimalValue(text, 1, 0) * 1000
                      + frac(1) * 100 + frac(2) * 10 + frac(3)]

NullNode == [type |-> "NULL"]

RECURSIVE parse_expr(_), parse_stmt(_), parse_block(_), parse_primary(_),
          parse_postfix(_), parse_unary(_), parse_binary(_, _)

\* A parse function hands what a nested parse function returned to the operator
\* that goes on from there, which stops where the nested one never returns.

\* do { list[count++] = parse_expr(p); } while (match(p, TOK_COMMA));
RECURSIVE ParseExprList(_, _)
ExprListNext(e, acc) ==
    IF e.p.hang THEN [n |-> acc, p |-> e.p]
    ELSE IF check(e.p, "TOK_COMMA") THEN ParseExprList(advance(e.p), Append(acc, e.n))
    ELSE [n |-> Append(acc, e.n), p |-> e.p]

ParseExprList(p, acc) == ExprListNext(parse_expr(p), acc)

\* the expressions up to the token `close`, which p may be at already
ExprListUpTo(p, close) ==
    IF check(p, close) THEN [n |-> <<>>, p |-> p] ELSE ParseExprList(p, <<>>)

\* do { consume(p, TOK_IDENT, ...); params[count++] = previous; } while (match(COMMA));
RECURSIVE ParseParams(_, _)
ParseParams(p, acc) ==
    LET p1 == consume(p, "TOK_IDENT", "expected parameter name")
        acc1 == Append(acc, p1.previous.text)
    IN IF check(p1, "TOK_COMMA") THEN ParseParams(advance(p1), acc1)
       ELSE [n |-> acc1, p |-> p1]

\* the parameters up to the token `close`, which p may be at already
ParamsUpTo(p, close) ==
    IF check(p, close) THEN [n |-> <<>>, p |-> p] ELSE ParseParams(p, <<>>)

\* parse_primary after the expression in parentheses
GroupingEnd(e) ==
    IF e.p.hang THEN e
    ELSE [n |-> e.n, p |-> consume(e.p, "TOK_RPAREN", "expected ')' after expression")]

\* parse_primary after the elements of an array literal
ArrayEnd(l) ==
    IF l.p.hang THEN l
    ELSE [n |-> [type |-> "AST_ARRAY", elements |-> l.n],
          p |-> consume(l.p, "TOK_RBRACKET", "expected ']' after array elements")]

\* parse_primary after the body of a closure
ClosureEnd(params, b) ==
    [n |-> [type |-> "AST_CLOSURE", params |-> params, body |-> b.n], p |-> b.p]

\* parse_primary after the parameters of a closure
ClosureBody(l) ==
    LET p2 == consume(l.p, "TOK_PIPE", "expected '|' after parameters")
    IN ClosureEnd(l.n, IF check(p2, "TOK_LBRACE") THEN parse_block(advance(p2))
                       ELSE parse_expr(p2))

parse_primary(p) ==
    LET t == Current(p) IN
    CASE t.type = "TOK_INT" -> [n |-> new_int(t.text), p |-> advance(p)]
      [] t.type = "TOK_FLOAT" -> [n |-> new_float(t.text), p |-> advance(p)]
      [] t.type = "TOK_TRUE" ->
            [n |-> [type |-> "AST_BOOL", bool_val |-> TRUE], p |-> advance(p)]
      [] t.type = "TOK_FALSE" ->
            [n |-> [type |-> "AST_BOOL", bool_val |-> FALSE], p |-> advance(p)]
      [] t.type = "TOK_NONE" -> [n |-> [type |-> "AST_NONE"], p |-> advance(p)]
      [] t.type = "TOK_STRING" ->
            [n |-> [type |-> "AST_STRING",
                    str_val |-> SubSeq(t.text, 2, Len(t.text) - 1)],
             p |-> advance(p)]
      [] t.type = "TOK_IDENT" ->
            [n |-> [type |-> "AST_IDENT", str_val |-> t.text], p |-> advance(p)]
      [] t.type = "TOK_LPAREN" -> GroupingEnd(parse_expr(advance(p)))
      [] t.type = "TOK_LBRACKET" -> ArrayEnd(ExprListUpTo(advance(p), "TOK_RBRACKET"))
      [] t.type = "TOK_PIPE" -> ClosureBody(ParamsUpTo(advance(p), "TOK_PIPE"))
      [] OTHER -> [n |-> [type |-> "AST_NONE"], p |-> error_at(p, "expected expression")]

\* while (match(p, TOK_DOT)) { ... } of an iterator chain
RECURSIVE ParseChainMethods(_, _)
ChainMethodEnd(method, chain, closure, p3) ==
    IF p3.hang THEN [n |-> chain, p |-> p3]
    ELSE ParseChainMethods(consume(p3, "TOK_RPAREN", "expected ')' after arguments"),
                           [chain EXCEPT !.methods = Append(@, method),
                                         !.closures = Append(@, closure)])

ChainMethodArgument(method, chain, c) ==
    IF c.p.hang THEN [n |-> chain, p |-> c.p]
    ELSE ChainMethodEnd(method, chain, c.n,
             IF method = "fold"
             THEN parse_primary(consume(c.p, "TOK_COMMA",
                                        "expected second argument to fold")).p
             ELSE c.p)

ParseChainMethods(p, chain) ==
    IF ~check(p, "TOK_DOT") THEN [n |-> chain, p |-> p]
    ELSE LET p1 == consume(advance(p), "TOK_IDENT", "expected method name")
             p2 == consume(p1, "TOK_LPAREN", "expected '(' after method")
         IN ChainMethodArgument(p1.previous.text, chain,
                IF check(p2, "TOK_PIPE") THEN parse_primary(p2) ELSE parse_expr(p2))

\* the for (;;) loop of parse_postfix
RECURSIVE PostfixLoop(_, _)
CallEnd(expr, l) ==
    IF l.p.hang THEN l
    ELSE PostfixLoop(consume(l.p, "TOK_RPAREN", "expected ')' after arguments"),
                     [type |-> "AST_CALL", callee |-> expr, args |-> l.n])

IndexEnd(expr, i) ==
    IF i.p.hang THEN i
    ELSE PostfixLoop(consume(i.p, "TOK_RBRACKET", "expected ']' after index"),
                     [type |-> "AST_INDEX", array |-> expr, index |-> i.n])

ChainEnd(c) == IF c.p.hang THEN c ELSE PostfixLoop(c.p, c.n)

PostfixLoop(p, expr) ==
    CASE check(p, "TOK_LPAREN") -> CallEnd(expr, ExprListUpTo(advance(p), "TOK_RPAREN"))
      [] check(p, "TOK_LBRACKET") -> IndexEnd(expr, parse_expr(advance(p)))
      [] check(p, "TOK_DOT") ->
            LET p1 == consume(advance(p), "TOK_IDENT", "expected method name after '.'")
            IN IF p1.previous.text = "iter"
               THEN ChainEnd(ParseChainMethods(
                        consume(consume(p1, "TOK_LPAREN", "expected '(' after 'iter'"),
                                "TOK_RPAREN", "expected ')' after 'iter'"),
                        [type |-> "AST_ITER_CHAIN", source |-> expr,
                         methods |-> <<>>, closures |-> <<>>]))
               ELSE PostfixLoop(error_at(p1, "unknown method"), expr)
      [] OTHER -> [n |-> expr, p |-> p]

PostfixFrom(e) == IF e.p.hang THEN e ELSE PostfixLoop(e.p, e.n)

parse_postfix(p) == PostfixFrom(parse_primary(p))

UnaryEnd(e) == [n |-> [type |-> "AST_UNARY", op |-> "-", operand |-> e.n], p |-> e.p]

parse_unary(p) ==
    IF check(p, "TOK_MINUS") THEN UnaryEnd(parse_unary(advance(p)))
    ELSE parse_postfix(p)

\* the operator text of a binary operator token
BinaryOpText(type) ==
    CASE type = "TOK_STAR" -> "*" [] type = "TOK_SLASH" -> "/"
      [] type = "TOK_PERCENT" -> "%" [] type = "TOK_PLUS" -> "+"
      [] type = "TOK_MINUS" -> "-" [] type = "TOK_LT" -> "<"
      [] type = "TOK_LE" -> "<=" [] type = "TOK_GT" -> ">"
      [] type = "TOK_GE" -> ">=" [] type = "TOK_EQ" -> "=="
      [] type = "TOK_NE" -> "!="

\* the precedence at which the for (;;) loop of parse_binary takes the
\* current token as an operator when called with `prec`, PREC_NONE if it does not
BinaryNextPrec(p, prec) ==
    LET t == Current(p).type IN
    IF prec <= PREC_FACTOR /\ t \in {"TOK_STAR", "TOK_SLASH", "TOK_PERCENT"}
    THEN PREC_FACTOR
    ELSE IF prec <= PREC_TERM /\ t \in {"TOK_PLUS", "TOK_MINUS"}
    THEN PREC_TERM
    ELSE IF prec <= PREC_COMPARISON /\ t \in {"TOK_LT", "TOK_LE", "TOK_GT", "TOK_GE"}
    THEN PREC_COMPARISON
    ELSE IF prec <= PREC_EQUALITY /\ t \in {"TOK_EQ", "TOK_NE"}
    THEN PREC_EQUALITY
    ELSE PREC_NONE

RECURSIVE BinaryLoop(_, _, _)
BinaryRight(op, prec, left, r) ==
    IF r.p.hang THEN r
    ELSE BinaryLoop(r.p, prec,
                    [type |-> "AST_BINARY", op |-> op, left |-> left, right |-> r.n])

BinaryLoop(p, prec, left) ==
    IF BinaryNextPrec(p, prec) = PREC_NONE THEN [n |-> left, p |-> p]
    ELSE BinaryRight(BinaryOpText(Current(p).type), prec, left,
                     parse_binary(advance(p), BinaryNextPrec(p, prec) + 1))

\* `left`, the result of parse_binary(p, level + 1), taken through the loops of
\* parse_binary(p, level), parse_binary(p, level - 1), ..., parse_binary(p, prec)
RECURSIVE BinaryLevels(_, _, _)
BinaryLevels(left, level, prec) ==
    IF level < prec \/ left.p.hang THEN left
    ELSE BinaryLevels(BinaryLoop(left.p, level, left.n), level - 1, prec)

\* parse_binary(p, prec) calls parse_binary(p, prec + 1) up to PREC_UNARY and
\* then runs its loop on the way back at every level
parse_binary(p, prec) ==
    IF prec >= PREC_UNARY THEN parse_unary(p)
    ELSE BinaryLevels(parse_unary(p), PREC_FACTOR, prec)

parse_expr(p) == parse_binary(p, PREC_ASSIGNMENT)

\* what a statement loop compares to see that an iteration changed nothing
ParserProgress(p) == <<p.cur, p.previous, p.had_error, p.panic_mode>>

\* one iteration of parse_block's while loop on [n, p, done]:
\* while (!check(p, TOK_RBRACE) && !check(p, TOK_EOF)) stmts[count++] = parse_stmt(p);
BlockNext(st, s) ==
    IF ~s.p.hang /\ ParserProgress(s.p) = ParserProgress(st.p)
    THEN [n |-> st.n, p |-> [st.p EXCEPT !.hang = TRUE], done |-> TRUE]
    ELSE [n |-> Append(st.n, s.n), p |-> s.p, done |-> FALSE]

BlockStep(st) ==
    IF st.done THEN st
    ELSE IF st.p.hang \/ check(st.p, "TOK_RBRACE") \/ check(st.p, "TOK_EOF")
    THEN [st EXCEPT !.done = TRUE]
    ELSE BlockNext(st, parse_stmt(st.p))

RECURSIVE BlockLoop(_)
BlockLoop(st) == IF st.done THEN st ELSE BlockLoop(BlockStep(st))

BlockEnd(b) ==
    [n |-> [type |-> "AST_BLOCK", stmts |-> b.n],
     p |-> IF b.p.hang THEN b.p
           ELSE consume(b.p, "TOK_RBRACE", "expected '}' after block")]

parse_block(p) == BlockEnd(BlockLoop([n |-> <<>>, p |-> p, done |-> FALSE]))

\* parse_stmt after the nested expression or block named by the operator
LetEnd(name, is_mut, e) ==
    [n |-> [type |-> "AST_LET", name |-> name, is_mut |-> is_mut, init |-> e.n],
     p |-> e.p]

FnEnd(name, params, b) ==
    [n |-> [type |-> "AST_FN", name |-> name, params |-> params, body |-> b.n],
     p |-> b.p]

IfEnd(cond, then_branch, el) ==
    [n |-> [type |-> "AST_IF", cond |-> cond, then_branch |-> then_branch,
            else_branch |-> el.n],
     p |-> el.p]

IfElse(cond, th) ==
    IF th.p.hang THEN th
    ELSE IfEnd(cond, th.n,
               IF check(th.p, "TOK_ELSE")
               THEN parse_block(consume(advance(th.p), "TOK_LBRACE",
                                        "expected '{' after else"))
               ELSE [n |-> NullNode, p |-> th.p])

IfThen(c) ==
    IF c.p.hang THEN c
    ELSE IfElse(c.n, parse_block(consume(c.p, "TOK_LBRACE",
                                         "expected '{' after if condition")))

WhileEnd(cond, b) == [n |-> [type |-> "AST_WHILE", cond |-> cond, body |-> b.n], p |-> b.p]

WhileBody(c) ==
    IF c.p.hang THEN c
    ELSE WhileEnd(c.n, parse_block(consume(c.p, "TOK_LBRACE",
                                           "expected '{' after while condition")))

ForEnd(var, iterable, b) ==
    [n |-> [type |-> "AST_FOR", var |-> var, iterable |-> iterable, body |-> b.n],
     p |-> b.p]

ForBody(var, e) ==
    IF e.p.hang THEN e
    ELSE ForEnd(var, e.n, parse_block(consume(e.p, "TOK_LBRACE",
                                              "expected '{' after for iterable")))

LoopEnd(b) == [n |-> [type |-> "AST_LOOP", body |-> b.n], p |-> b.p]

ReturnEnd(e) == [n |-> [type |-> "AST_RETURN", value |-> e.n], p |-> e.p]

AssignEnd(target, v) ==
    [n |-> [type |-> "AST_ASSIGN",
            name |-> IF target.type = "AST_IDENT" THEN target.str_val ELSE "",
            target |-> IF target.type = "AST_IDENT" THEN NullNode ELSE target,
            value |-> v.n],
     p |-> v.p]

ExprStmtEnd(e) ==
    IF e.p.hang \/ ~check(e.p, "TOK_ASSIGN") THEN e
    ELSE IF e.n.type \notin {"AST_IDENT", "AST_INDEX"}
    THEN [n |-> e.n, p |-> error_at(advance(e.p), "invalid assignment target")]
    ELSE AssignEnd(e.n, parse_expr(advance(e.p)))

parse_stmt(p) ==
    LET t == Current(p).type IN
    CASE t = "TOK_LET" ->
            LET p1 == advance(p)
                is_mut == check(p1, "TOK_MUT")
                p3 == consume(IF is_mut THEN advance(p1) ELSE p1,
                              "TOK_IDENT", "expected variable name")
            IN LetEnd(p3.previous.text, is_mut,
                      parse_expr(consume(p3, "TOK_ASSIGN",
                                         "expected '=' after variable name")))
      [] t = "TOK_LBRACE" -> parse_block(advance(p))
      [] t = "TOK_FN" ->
            LET p1 == consume(advance(p), "TOK_IDENT", "expected function name")
                l == ParamsUpTo(consume(p1, "TOK_LPAREN",
                                        "expected '(' after function name"),
                                "TOK_RPAREN")
            IN FnEnd(p1.previous.text, l.n,
                     parse_block(consume(consume(l.p, "TOK_RPAREN",
                                                 "expected ')' after parameters"),
                                         "TOK_LBRACE",
                                         "expected '{' before function body")))
      [] t = "TOK_IF" -> IfThen(parse_expr(advance(p)))
      [] t = "TOK_WHILE" -> WhileBody(parse_expr(advance(p)))
      [] t = "TOK_FOR" ->
            LET p1 == consume(advance(p), "TOK_IDENT", "expected variable name")
            IN ForBody(p1.previous.text,
                       parse_expr(consume(p1, "TOK_IN",
                                          "expected 'in' after for variable")))
      [] t = "TOK_LOOP" ->
            LoopEnd(parse_block(consume(advance(p), "TOK_LBRACE",
                                        "expected '{' after loop")))
      [] t = "TOK_BREAK" -> [n |-> [type |-> "AST_BREAK"], p |-> advance(p)]
      [] t = "TOK_RETURN" ->
            IF ~check(advance(p), "TOK_RBRACE") /\ ~check(advance(p), "TOK_EOF")
            THEN ReturnEnd(parse_expr(advance(p)))
            ELSE [n |-> [type |-> "AST_RETURN", value |-> [type |-> "AST_NONE"]],
                  p |-> advance(p)]
      [] OTHER -> ExprStmtEnd(parse_expr(p))

SyncKeywords == {"TOK_FN", "TOK_LET", "TOK_IF", "TOK_WHILE", "TOK_FOR", "TOK_RETURN"}

\* one iteration of the resynchronisation loop of parse on [p, ret, done];
\* ret says that the loop ended with `return program`
SyncStep(st) ==
    IF st.done THEN st
    ELSE IF Current(st.p).type = "TOK_EOF" \/ st.p.previous.type = "TOK_SEMICOLON"
    THEN [st EXCEPT !.done = TRUE]
    ELSE IF Current(st.p).type \in SyncKeywords
    THEN [p |-> [st.p EXCEPT !.panic_mode = FALSE], ret |-> TRUE, done |-> TRUE]
    ELSE [st EXCEPT !.p = advance(st.p)]

RECURSIVE SyncLoop(_)
SyncLoop(st) == IF st.done THEN st ELSE SyncLoop(SyncStep(st))

Synchronize(p) == SyncLoop([p |-> p, ret |-> FALSE, done |-> FALSE])

\* one iteration of while (!match(&parser, TOK_EOF)) { ... } of parse on
\* [p, ret, stmts, done]
ProgramNext(st, s) ==
    LET y == IF s.p.panic_mode /\ ~s.p.hang THEN Synchronize(s.p)
             ELSE [p |-> s.p, ret |-> FALSE]
    IN IF s.p.hang \/ y.ret
       THEN [p |-> y.p, ret |-> y.ret, stmts |-> Append(st.stmts, s.n), done |-> TRUE]
       ELSE IF ParserProgress(y.p) = ParserProgress(st.p)
       THEN [st EXCEPT !.p.hang = TRUE, !.done = TRUE]
       ELSE [p |-> y.p, ret |-> FALSE, stmts |-> Append(st.stmts, s.n), done |-> FALSE]

ProgramStep(st) ==
    IF st.done THEN st
    ELSE IF check(st.p, "TOK_EOF") THEN [st EXCEPT !.p = advance(st.p), !.done = TRUE]
    ELSE ProgramNext(st, parse_stmt(st.p))

RECURSIVE ProgramLoop(_)
ProgramLoop(st) == IF st.done THEN st ELSE ProgramLoop(ProgramStep(st))

\* `junk` is the type found in the uninitialised parser.previous that the first
\* advance copies from the uninitialised parser.current
ParserInit(source, junk) ==
    [toks |-> Tokens(source), cur |-> 0,
     previous |-> [type |-> junk, text |-> "", line |-> 0],
     had_error |-> FALSE, panic_mode |-> FALSE, errors |-> <<>>, hang |-> FALSE]

\* what parse returns once its loop has ended in r
ParseEnd(r) ==
    [ast |-> IF r.ret \/ ~r.p.had_error
             THEN [type |-> "AST_BLOCK", stmts |-> r.stmts] ELSE NullNode,
     hang |-> r.p.hang, errors |-> r.p.errors, had_error |-> r.p.had_error]

\* parse(source): [ast, hang, errors, had_error]; ast is NullNode for the failure
\* sentinel
parse(source, junk) ==
    ParseEnd(ProgramLoop([p |-> SkipErrorTokens(ParserInit(source, junk), 1),
                          ret |-> FALSE, stmts |-> <<>>, done |-> FALSE]))

(***************************************************************************)
(* Values (value.c) and opcodes (mica_internal.h)                          *)
(*                                                                         *)
(* A Value is [type, v].  v is the integer of an i32, the thousandths of   *)
(* an f32, the boolean of a bool, the characters of an interned string,    *)
(* the identity of an array or closure object, and for the native tag      *)
(* either a native function (negative: minus its registry position) or an *)
(* iterator object (positive).  A closure constant of a prototype holds    *)
(* the FunctionProto itself, as compile_closure and compile_fn store it.   *)
(***************************************************************************)

value_i32(n) == [type |-> "i32", v |-> n]
value_f32(n) == [type |-> "f32", v |-> n]
value_bool(b) == [type |-> "bool", v |-> b]
value_none == [type |-> "none", v |-> 0]
value_string(chars) == [type |-> "string", v |-> chars]

OP_NOP == 0
OP_LOAD_CONST == 1
OP_LOAD_LOCAL == 2
OP_STORE_LOCAL == 3
OP_MOVE == 4
OP_LOAD_UPVAL == 5
OP_STORE_UPVAL == 6
OP_LOAD_GLOBAL == 7
OP_STORE_GLOBAL == 8
OP_ADD == 9
OP_SUB == 10
OP_MUL == 11
OP_DIV == 12
OP_MOD == 13
OP_NEG == 14
OP_EQ == 15
OP_NE == 16
OP_LT == 17
OP_LE == 18
OP_GT == 19
OP_GE == 20
OP_JMP == 21
OP_JMP_IF == 22
OP_JMP_IF_NOT == 23
OP_RET == 24
OP_CALL == 25
OP_CLOSURE == 26
OP_CLOSE_UPVAL == 27
OP_CALL_NATIVE == 28
OP_ARRAY_NEW == 29
OP_ARRAY_GET == 30
OP_ARRAY_SET == 31
OP_ARRAY_LEN == 32
OP_ARRAY_PUSH == 33
OP_ITER_NEW == 34
OP_ITER_NEXT == 35
OP_ITER_HAS_NEXT == 36

(***************************************************************************)
(* Compiler (compiler.c)                                                   *)
(*                                                                         *)
(* K is the chain of Compiler structs, outermost first: K[Len(K)] is `c`   *)
(* and K[i-1] is K[i].enclosing.  A Compiler is [function, locals,         *)
(* scope_depth, register_count, loop, messages]; local_count is            *)
(* Len(locals), loop is the stack of LoopContexts, each the sequence of    *)
(* its patch addresses, and K[1].messages lists what the compile functions *)
(* have written to stderr.  Code addresses, constant indices and local     *)
(* slots count from 0 as in C, so code[a] is function.code[a + 1].         *)
(* Expression compilers return [k, reg], statement compilers return the    *)
(* chain.                                                                  *)
(***************************************************************************)

Cur(K) == K[Len(K)]

\* c == NULL, which no compile function is ever handed.  TLC evaluates an
\* argument where it is first used; comparing the chain that a nested
\* compile_expr or compile_stmt returned with this one makes TLC compile the
\* nested node there, in program order, and not from inside the steps that
\* follow it.
NoCompiler == <<>>

compiler_init(name) ==
    [function |-> [code |-> <<>>, constants |-> <<>>, arity |-> 0,
                   upvalue_descs |-> <<>>, name |-> name],
     locals |-> <<>>, scope_depth |-> 0, register_count |-> 0, loop |-> <<>>,
     messages |-> <<>>]

\* fprintf(stderr, ...) of the compile functions
Message(K, text) == [K EXCEPT ![1].messages = Append(@, text)]

emit_byte(K, byte) == [K EXCEPT ![Len(K)].function.code = Append(@, byte % 256)]

emit_op(K, op) == emit_byte(K, op)

\* consecutive emit_op / emit_byte calls
EmitAll(K, bytes) ==
    [K EXCEPT ![Len(K)].function.code = @ \o [i \in 1..Len(bytes) |-> bytes[i] % 256]]

code_count(K) == Len(Cur(K).function.code)

INT16_MAX == 32767

\* the conversion of x to int16_t
Int16(x) == ((x + INT16_MAX + 1) % (2 * INT16_MAX + 2)) - INT16_MAX - 1

\* <<(offset >> 8) & 0xFF, offset & 0xFF>> for an int16_t offset
EncodeShort(offset) ==
    LET u == Int16(offset) % 65536 IN <<u \div 256, u % 256>>

\* code[addr] = (offset >> 8) & 0xFF; code[addr + 1] = offset & 0xFF for an int16_t
PatchShort(K, addr, offset) ==
    [K EXCEPT ![Len(K)].function.code[addr + 1] = EncodeShort(offset)[1],
              ![Len(K)].function.code[addr + 2] = EncodeShort(offset)[2]]

add_constant(K, val) ==
    [k |-> [K EXCEPT ![Len(K)].function.constants = Append(@, val)],
     idx |-> Len(Cur(K).function.constants) % 256]

alloc_register(K) ==
    [k |-> [K EXCEPT ![Len(K)].register_count = @ + 1],
     reg |-> Cur(K).register_count % 256]

free_register(K) ==
    IF Cur(K).register_count > 0 THEN [K EXCEPT ![Len(K)].register_count = @ - 1]
    ELSE K

begin_loop(K) == [K EXCEPT ![Len(K)].loop = Append(@, <<>>)]

RECURSIVE PatchBreaks(_, _, _)
PatchBreaks(K, patches, i) ==
    IF i > Len(patches) THEN K
    ELSE PatchBreaks(PatchShort(K, patches[i], code_count(K) - (patches[i] + 2)),
                     patches, i + 1)

\* end_loop with the defect of leaving the pending breaks unpatched
EndLoopUnpatched(K) ==
    IF Cur(K).loop = <<>> THEN K
    ELSE [K EXCEPT ![Len(K)].loop = SubSeq(@, 1, Len(@) - 1)]

end_loop(K) ==
    IF Cur(K).loop = <<>> THEN K
    ELSE LET loop == Cur(K).loop
             K1 == PatchBreaks(K, loop[Len(loop)], 1)
         IN [K1 EXCEPT ![Len(K)].loop = SubSeq(loop, 1, Len(loop) - 1)]

begin_scope(K) == [K EXCEPT ![Len(K)].scope_depth = @ + 1]

\* the while loop of end_scope, after scope_depth has been decremented: the
\* locals above the topmost one that stays are popped from the top down, with
\* an OP_CLOSE_UPVAL for each captured one
PopLocals(K) ==
    LET c == Cur(K)
        n == Len(c.locals)
        stay == {i \in 1..n : c.locals[i].depth <= c.scope_depth}
        kept == IF stay = {} THEN 0 ELSE CHOOSE i \in stay : \A j \in stay : j <= i
        popped == [j \in 1..(n - kept) |-> n - j + 1]
        captured == SelectSeq(popped, LAMBDA i : c.locals[i].is_captured)
        closes == [j \in 1..(2 * Len(captured)) |->
                      IF j % 2 = 1 THEN OP_CLOSE_UPVAL ELSE captured[j \div 2] - 1]
    IN [EmitAll(K, closes) EXCEPT ![Len(K)].locals = SubSeq(c.locals, 1, kept)]

end_scope(K) == PopLocals([K EXCEPT ![Len(K)].scope_depth = @ - 1])

\* the slot of the innermost local of that name in Compiler c, or -1
resolve_local(c, name) ==
    LET m == {i \in 1..Len(c.locals) : c.locals[i].name = name}
    IN IF m = {} THEN -1 ELSE (CHOOSE i \in m : \A j \in m : j <= i) - 1

\* add_upvalue with the defect of not looking for an existing descriptor
AddUpvalueAlways(K, lvl, index, is_local) ==
    LET descs == K[lvl].function.upvalue_descs
    IN IF Len(descs) >= 256 THEN [k |-> Message(K, "too many upvalues"), idx |-> -1]
       ELSE [k |-> [K EXCEPT ![lvl].function.upvalue_descs =
                        Append(@, [index |-> index, is_local |-> is_local])],
             idx |-> Len(descs)]

\* add_upvalue on the Compiler K[lvl]: [k, idx]
add_upvalue(K, lvl, index, is_local) ==
    LET descs == K[lvl].function.upvalue_descs
        m == {i \in 1..Len(descs) :
                descs[i].index = index /\ descs[i].is_local = is_local}
    IN IF m # {} THEN [k |-> K, idx |-> (CHOOSE i \in m : \A j \in m : i <= j) - 1]
       ELSE IF Len(descs) >= 256 THEN [k |-> Message(K, "too many upvalues"), idx |-> -1]
       ELSE [k |-> [K EXCEPT ![lvl].function.upvalue_descs =
                        Append(@, [index |-> index, is_local |-> is_local])],
             idx |-> Len(descs)]

\* resolve_upvalue on the Compiler K[lvl]: [k, idx]
RECURSIVE resolve_upvalue(_, _, _)
resolve_upvalue(K, lvl, name) ==
    IF lvl = 1 THEN [k |-> K, idx |-> -1]
    ELSE LET local == resolve_local(K[lvl - 1], name) IN
         IF local # -1
         THEN add_upvalue([K EXCEPT ![lvl - 1].locals[local + 1].is_captured = TRUE],
                          lvl, local % 256, TRUE)
         ELSE LET up == resolve_upvalue(K, lvl - 1, name) IN
              IF up.idx # -1 THEN add_upvalue(up.k, lvl, up.idx % 256, FALSE)
              ELSE [k |-> up.k, idx |-> -1]

declare_local(K, name, is_mut) ==
    IF Len(Cur(K).locals) >= 256 THEN Message(K, "too many local variables")
    ELSE [K EXCEPT ![Len(K)].locals =
              Append(@, [name |-> name, depth |-> Cur(K).scope_depth,
                         is_captured |-> FALSE, is_mut |-> is_mut])]

\* declare_local for params[i], params[i + 1], ...: those there is room for become
\* locals, each of the others writes the message
DeclareParams(K, params, i) ==
    LET room == 256 - Len(Cur(K).locals)
        rest == SubSeq(params, i, Len(params))
        kept == IF Len(rest) <= room THEN Len(rest) ELSE IF room > 0 THEN room ELSE 0
    IN [K EXCEPT
          ![Len(K)].locals =
              @ \o [j \in 1..kept |-> [name |-> rest[j], depth |-> Cur(K).scope_depth,
                                       is_captured |-> FALSE, is_mut |-> FALSE]],
          ![1].messages =
              @ \o [j \in 1..(Len(rest) - kept) |-> "too many local variables"]]

RECURSIVE compile_expr(_, _), compile_stmt(_, _)

compile_literal(K, node) ==
    LET a == alloc_register(K)
        val == CASE node.type = "AST_INT" -> value_i32(node.int_val)
                 [] node.type = "AST_FLOAT" -> value_f32(node.float_val)
                 [] node.type = "AST_BOOL" -> value_bool(node.bool_val)
                 [] node.type = "AST_STRING" -> value_string(node.str_val)
                 [] OTHER -> value_none
        k == add_constant(a.k, val)
    IN [k |-> EmitAll(k.k, <<OP_LOAD_CONST, k.idx, a.reg>>), reg |-> a.reg]

compile_ident(K, node) ==
    LET a == alloc_register(K)
        local == resolve_local(Cur(a.k), node.str_val)
        up == resolve_upvalue(a.k, Len(K), node.str_val)
        k == add_constant(up.k, value_string(node.str_val))
    IN IF local # -1
       THEN [k |-> EmitAll(a.k, <<OP_LOAD_LOCAL, local, a.reg>>), reg |-> a.reg]
       ELSE IF up.idx # -1
       THEN [k |-> EmitAll(up.k, <<OP_LOAD_UPVAL, up.idx, a.reg>>), reg |-> a.reg]
       ELSE [k |-> EmitAll(k.k, <<OP_LOAD_GLOBAL, k.idx, a.reg>>), reg |-> a.reg]

BinaryOpcode(op) ==
    CASE op = "+" -> OP_ADD [] op = "-" -> OP_SUB [] op = "*" -> OP_MUL
      [] op = "/" -> OP_DIV [] op = "%" -> OP_MOD [] op = "==" -> OP_EQ
      [] op = "!=" -> OP_NE [] op = "<" -> OP_LT [] op = "<=" -> OP_LE
      [] op = ">" -> OP_GT [] op = ">=" -> OP_GE

\* A compile function hands what a nested compile_expr or compile_stmt returned
\* to the operator that goes on from there.
CompileBinaryEnd(node, left_reg, right) ==
    IF right.k = NoCompiler THEN right
    ELSE LET dest == alloc_register(right.k)
             K1 == EmitAll(dest.k, <<BinaryOpcode(node.op), left_reg, right.reg, dest.reg>>)
         IN [k |-> free_register(free_register(K1)), reg |-> dest.reg]

CompileBinaryRight(node, left) ==
    IF left.k = NoCompiler THEN left
    ELSE CompileBinaryEnd(node, left.reg, compile_expr(left.k, node.right))

compile_binary(K, node) == CompileBinaryRight(node, compile_expr(K, node.left))

CompileUnaryEnd(node, operand) ==
    IF operand.k = NoCompiler THEN operand
    ELSE LET dest == alloc_register(operand.k)
             K1 == IF node.op = "-" THEN EmitAll(dest.k, <<OP_NEG, operand.reg, dest.reg>>)
                   ELSE dest.k
         IN [k |-> free_register(K1), reg |-> dest.reg]

compile_unary(K, node) == CompileUnaryEnd(node, compile_expr(K, node.operand))

RECURSIVE CompileElements(_, _, _, _)
CompileElementEnd(elem, elements, i, arr_reg) ==
    IF elem.k = NoCompiler THEN elem.k
    ELSE CompileElements(free_register(EmitAll(elem.k, <<OP_ARRAY_PUSH, arr_reg, elem.reg>>)),
                         elements, i + 1, arr_reg)

CompileElements(K, elements, i, arr_reg) ==
    IF i > Len(elements) THEN K
    ELSE CompileElementEnd(compile_expr(K, elements[i]), elements, i, arr_reg)

compile_array(K, node) ==
    LET a == alloc_register(K)
        K1 == EmitAll(a.k, <<OP_ARRAY_NEW, Len(node.elements), a.reg>>)
    IN [k |-> CompileElements(K1, node.elements, 1, a.reg), reg |-> a.reg]

CompileIndexEnd(arr_reg, idx) ==
    IF idx.k = NoCompiler THEN idx
    ELSE LET dest == alloc_register(idx.k)
             K1 == EmitAll(dest.k, <<OP_ARRAY_GET, arr_reg, idx.reg, dest.reg>>)
         IN [k |-> free_register(free_register(K1)), reg |-> dest.reg]

CompileIndexIndex(node, arr) ==
    IF arr.k = NoCompiler THEN arr
    ELSE CompileIndexEnd(arr.reg, compile_expr(arr.k, node.index))

compile_index(K, node) == CompileIndexIndex(node, compile_expr(K, node.array))

\* arg_regs[i] = compile_expr(c, args[i]) for every argument: [k, regs]
RECURSIVE CompileArgs(_, _, _, _)
CompileArgEnd(a, args, i, regs) ==
    IF a.k = NoCompiler THEN [k |-> a.k, regs |-> regs]
    ELSE CompileArgs(a.k, args, i + 1, Append(regs, a.reg))

CompileArgs(K, args, i, regs) ==
    IF i > Len(args) THEN [k |-> K, regs |-> regs]
    ELSE CompileArgEnd(compile_expr(K, args[i]), args, i, regs)

\* the OP_MOVE of every argument that is not already in its target register
RECURSIVE MoveArgs(_, _, _, _)
MoveArgs(K, regs, i, arg_start) ==
    IF i > Len(regs) THEN K
    ELSE LET target_reg == (arg_start + i - 1) % 256
             K1 == IF regs[i] # target_reg
                   THEN EmitAll(K, <<OP_MOVE, regs[i], target_reg>>) ELSE K
         IN MoveArgs(K1, regs, i + 1, arg_start)

CompileCallEnd(node, func_reg, args) ==
    IF args.k = NoCompiler THEN [k |-> args.k, reg |-> 0]
    ELSE LET dest == alloc_register(MoveArgs(args.k, args.regs, 1, (func_reg + 1) % 256))
         IN [k |-> EmitAll(dest.k, <<OP_CALL, func_reg, Len(node.args), dest.reg>>),
             reg |-> dest.reg]

CompileCallArgs(node, func) ==
    IF func.k = NoCompiler THEN func
    ELSE CompileCallEnd(node, func.reg, CompileArgs(func.k, node.args, 1, <<>>))

compile_call(K, node) == CompileCallArgs(node, compile_expr(K, node.callee))

\* the is_local, index byte pairs that follow an OP_CLOSURE, from descs[i] on
EmitUpvalueDescs(K, descs, i) ==
    EmitAll(K, [j \in 1..(2 * (Len(descs) - i + 1)) |->
                   LET desc == descs[i + (j - 1) \div 2]
                   IN IF j % 2 = 0 THEN desc.index
                      ELSE IF desc.is_local THEN 1 ELSE 0])

\* compiler_init of a nested Compiler up to the parameters' registers
NestedCompiler(K, name, params) ==
    LET K1 == Append(K, [compiler_init(name) EXCEPT !.function.arity = Len(params)])
        K2 == DeclareParams(begin_scope(K1), params, 1)
    IN [K2 EXCEPT ![Len(K2)].register_count = Len(Cur(K2).locals)]

closure_constant(function) == [type |-> "closure", v |-> function]

\* compile_closure once the body is compiled: K2 is the chain with the nested
\* Compiler on top
CompileClosureEnd(K2) ==
    IF K2 = NoCompiler THEN [k |-> K2, reg |-> 0]
    ELSE LET K3 == end_scope(EmitAll(K2, <<OP_RET, 0>>))
             function == Cur(K3).function
             k == add_constant(SubSeq(K3, 1, Len(K3) - 1), closure_constant(function))
             a == alloc_register(k.k)
             K4 == EmitAll(a.k, <<OP_CLOSURE, k.idx, a.reg, Len(function.upvalue_descs)>>)
         IN [k |-> EmitUpvalueDescs(K4, function.upvalue_descs, 1), reg |-> a.reg]

CompileClosureExprEnd(e) ==
    IF e.k = NoCompiler THEN e.k
    ELSE free_register(EmitAll(e.k, <<OP_RET, 1, e.reg>>))

compile_closure(K, node) ==
    CompileClosureEnd(
        IF node.body.type = "AST_BLOCK"
        THEN compile_stmt(NestedCompiler(K, "", node.params), node.body)
        ELSE CompileClosureExprEnd(compile_expr(NestedCompiler(K, "", node.params),
                                                node.body)))

compile_iter_chain(K, node) == compile_expr(K, node.source)

compile_expr(K, node) ==
    CASE K = NoCompiler -> [k |-> K, reg |-> 0]
      [] node.type \in {"AST_INT", "AST_FLOAT", "AST_BOOL", "AST_STRING", "AST_NONE"} ->
            compile_literal(K, node)
      [] node.type = "AST_IDENT" -> compile_ident(K, node)
      [] node.type = "AST_BINARY" -> compile_binary(K, node)
      [] node.type = "AST_UNARY" -> compile_unary(K, node)
      [] node.type = "AST_ARRAY" -> compile_array(K, node)
      [] node.type = "AST_INDEX" -> compile_index(K, node)
      [] node.type = "AST_CALL" -> compile_call(K, node)
      [] node.type = "AST_CLOSURE" -> compile_closure(K, node)
      [] node.type = "AST_ITER_CHAIN" -> compile_iter_chain(K, node)
      [] OTHER -> LET a == alloc_register(K) IN [k |-> a.k, reg |-> a.reg]

CompileLetGlobalEnd(node, val) ==
    IF val.k = NoCompiler THEN val.k
    ELSE LET k == add_constant(val.k, value_string(node.name))
         IN free_register(EmitAll(k.k, <<OP_STORE_GLOBAL, k.idx, val.reg>>))

CompileLetLocalEnd(local_slot, val) ==
    IF val.k = NoCompiler THEN val.k
    ELSE LET K1 == IF val.reg # local_slot % 256
                   THEN EmitAll(val.k, <<OP_MOVE, val.reg, local_slot>>) ELSE val.k
             K2 == EmitAll(K1, <<OP_STORE_LOCAL, local_slot, local_slot>>)
             K3 == IF Cur(K2).register_count <= local_slot
                   THEN [K2 EXCEPT ![Len(K2)].register_count = local_slot + 1] ELSE K2
         IN \* while (register_count > local_count) free_register(c);
            IF Cur(K3).register_count > Len(Cur(K3).locals)
            THEN [K3 EXCEPT ![Len(K3)].register_count = Len(Cur(K3).locals)] ELSE K3

compile_let(K, node) ==
    IF Cur(K).scope_depth = 0
    THEN CompileLetGlobalEnd(node, compile_expr(K, node.init))
    ELSE CompileLetLocalEnd(Len(Cur(K).locals),
                            compile_expr(declare_local(K, node.name, node.is_mut),
                                         node.init))

CompileAssignIndexEnd(arr_reg, idx_reg, val) ==
    IF val.k = NoCompiler THEN val.k
    ELSE free_register(free_register(free_register(
             EmitAll(val.k, <<OP_ARRAY_SET, arr_reg, idx_reg, val.reg>>))))

CompileAssignIndexValue(node, arr_reg, idx) ==
    IF idx.k = NoCompiler THEN idx.k
    ELSE CompileAssignIndexEnd(arr_reg, idx.reg, compile_expr(idx.k, node.value))

CompileAssignIndexIndex(node, arr) ==
    IF arr.k = NoCompiler THEN arr.k
    ELSE CompileAssignIndexValue(node, arr.reg, compile_expr(arr.k, node.target.index))

CompileAssignEnd(node, val) ==
    IF val.k = NoCompiler THEN val.k
    ELSE LET local == resolve_local(Cur(val.k), node.name)
             up == resolve_upvalue(val.k, Len(val.k), node.name)
             k == add_constant(up.k, value_string(node.name))
         IN free_register(
              IF local # -1
              THEN EmitAll(IF Cur(val.k).locals[local + 1].is_mut THEN val.k
                           ELSE Message(val.k, "cannot assign to immutable variable: "
                                               \o node.name),
                           <<OP_STORE_LOCAL, local, val.reg>>)
              ELSE IF up.idx # -1 THEN EmitAll(up.k, <<OP_STORE_UPVAL, up.idx, val.reg>>)
              ELSE EmitAll(k.k, <<OP_STORE_GLOBAL, k.idx, val.reg>>))

compile_assign(K, node) ==
    IF node.target.type = "AST_INDEX"
    THEN CompileAssignIndexIndex(node, compile_expr(K, node.target.array))
    ELSE CompileAssignEnd(node, compile_expr(K, node.value))

CompileIfEnd(end_jmp, K6) ==
    IF K6 = NoCompiler THEN K6
    ELSE PatchShort(K6, end_jmp, code_count(K6) - end_jmp - 2)

CompileIfElse(node, else_jmp, K2) ==
    IF K2 = NoCompiler THEN K2
    ELSE IF node.else_branch.type # "NULL"
    THEN LET K3 == emit_op(K2, OP_JMP)
             K4 == EmitAll(K3, <<0, 0>>)
         IN CompileIfEnd(code_count(K3),
                         compile_stmt(PatchShort(K4, else_jmp, code_count(K4) - else_jmp - 2),
                                      node.else_branch))
    ELSE PatchShort(K2, else_jmp, code_count(K2) - else_jmp - 2)

CompileIfThen(node, cond) ==
    IF cond.k = NoCompiler THEN cond.k
    ELSE LET K1 == EmitAll(cond.k, <<OP_JMP_IF_NOT, cond.reg>>)
         IN CompileIfElse(node, code_count(K1),
                          compile_stmt(free_register(EmitAll(K1, <<0, 0>>)),
                                       node.then_branch))

compile_if(K, node) == CompileIfThen(node, compile_expr(K, node.cond))

\* emit OP_JMP back to loop_start
EmitLoopJump(K, loop_start) ==
    LET K1 == emit_op(K, OP_JMP)
        offset == -Int16(code_count(K1) - loop_start + 2)
    IN EmitAll(K1, EncodeShort(offset))

CompileWhileEnd(loop_start, exit_jmp, K2) ==
    IF K2 = NoCompiler THEN K2
    ELSE LET K3 == EmitLoopJump(K2, loop_start)
         IN end_loop(PatchShort(K3, exit_jmp, code_count(K3) - exit_jmp - 2))

CompileWhileBody(node, loop_start, cond) ==
    IF cond.k = NoCompiler THEN cond.k
    ELSE LET K1 == EmitAll(cond.k, <<OP_JMP_IF_NOT, cond.reg>>)
         IN CompileWhileEnd(loop_start, code_count(K1),
                            compile_stmt(free_register(EmitAll(K1, <<0, 0>>)), node.body))

compile_while(K, node) ==
    CompileWhileBody(node, code_count(K), compile_expr(begin_loop(K), node.cond))

CompileForEnd(loop_start, exit_jmp, body) ==
    IF body = NoCompiler THEN body
    ELSE LET K9 == EmitLoopJump(body, loop_start)
         IN end_loop(end_scope(PatchShort(K9, exit_jmp, code_count(K9) - exit_jmp - 2)))

CompileForBody(node, iterable) ==
    IF iterable.k = NoCompiler THEN iterable.k
    ELSE LET iter == alloc_register(iterable.k)
             K1 == free_register(EmitAll(iter.k, <<OP_ITER_NEW, iterable.reg, iter.reg>>))
             K2 == declare_local(K1, ".iter", FALSE)
             iter_local == Len(Cur(K2).locals) - 1
             K3 == free_register(EmitAll(K2, <<OP_STORE_LOCAL, iter_local, iter.reg>>))
             K4 == declare_local(K3, node.var, FALSE)
             var_local == Len(Cur(K4).locals) - 1
             loaded == alloc_register(K4)
             K5 == EmitAll(loaded.k, <<OP_LOAD_LOCAL, iter_local, loaded.reg>>)
             has_next == alloc_register(K5)
             K6 == EmitAll(has_next.k, <<OP_ITER_HAS_NEXT, loaded.reg, has_next.reg,
                                         OP_JMP_IF_NOT, has_next.reg>>)
             val == alloc_register(free_register(EmitAll(K6, <<0, 0>>)))
             K7 == free_register(EmitAll(val.k, <<OP_ITER_NEXT, loaded.reg, val.reg>>))
             K8 == free_register(EmitAll(K7, <<OP_STORE_LOCAL, var_local, val.reg>>))
         IN CompileForEnd(code_count(K4), code_count(K6), compile_stmt(K8, node.body))

compile_for(K, node) ==
    CompileForBody(node, compile_expr(begin_scope(begin_loop(K)), node.iterable))

CompileLoopEnd(loop_start, body) ==
    IF body = NoCompiler THEN body
    ELSE end_loop(EmitLoopJump(body, loop_start))

compile_loop(K, node) ==
    CompileLoopEnd(code_count(K), compile_stmt(begin_loop(K), node.body))

compile_break(K) ==
    IF Cur(K).loop = <<>> THEN Message(K, "break outside of loop")
    ELSE LET K1 == emit_op(K, OP_JMP)
             n == Len(Cur(K).loop)
         IN EmitAll([K1 EXCEPT ![Len(K)].loop[n] = Append(@, code_count(K1))], <<0, 0>>)

CompileReturnEnd(val) ==
    IF val.k = NoCompiler THEN val.k
    ELSE free_register(EmitAll(val.k, <<OP_RET, 1, val.reg>>))

compile_return(K, node) ==
    IF node.value.type # "AST_NONE" THEN CompileReturnEnd(compile_expr(K, node.value))
    ELSE EmitAll(K, <<OP_RET, 0>>)

RECURSIVE CompileStmts(_, _, _)
CompileStmts(K, stmts, i) ==
    IF K = NoCompiler \/ i > Len(stmts) THEN K
    ELSE CompileStmts(compile_stmt(K, stmts[i]), stmts, i + 1)

CompileBlockEnd(K1) == IF K1 = NoCompiler THEN K1 ELSE end_scope(K1)

compile_block(K, node) == CompileBlockEnd(CompileStmts(begin_scope(K), node.stmts, 1))

\* compile_fn once the body is compiled: K1 is the chain with the nested
\* Compiler on top
CompileFnEnd(node, fn_reg, K1) ==
    IF K1 = NoCompiler THEN K1
    ELSE LET K2 == end_scope(EmitAll(K1, <<OP_RET, 0>>))
             function == Cur(K2).function
             k == add_constant(SubSeq(K2, 1, Len(K2) - 1), closure_constant(function))
             K3 == EmitUpvalueDescs(
                       EmitAll(k.k, <<OP_CLOSURE, k.idx, fn_reg,
                                      Len(function.upvalue_descs)>>),
                       function.upvalue_descs, 1)
             name == add_constant(K3, value_string(node.name))
         IN free_register(
              IF Cur(K3).scope_depth = 0
              THEN EmitAll(name.k, <<OP_STORE_GLOBAL, name.idx, fn_reg>>)
              ELSE EmitAll(K3, <<OP_STORE_LOCAL, Len(Cur(K3).locals) - 1, fn_reg>>))

compile_fn(K, node) ==
    LET fn_reg == alloc_register(K)
        K0 == IF Cur(K).scope_depth > 0 THEN declare_local(fn_reg.k, node.name, FALSE)
              ELSE fn_reg.k
    IN CompileFnEnd(node, fn_reg.reg,
                    compile_stmt(NestedCompiler(K0, node.name, node.params), node.body))

CompileExprStmtEnd(e) == IF e.k = NoCompiler THEN e.k ELSE free_register(e.k)

compile_stmt(K, node) ==
    CASE K = NoCompiler -> K
      [] node.type = "AST_LET" -> compile_let(K, node)
      [] node.type = "AST_ASSIGN" -> compile_assign(K, node)
      [] node.type = "AST_IF" -> compile_if(K, node)
      [] node.type = "AST_WHILE" -> compile_while(K, node)
      [] node.type = "AST_FOR" -> compile_for(K, node)
      [] node.type = "AST_LOOP" -> compile_loop(K, node)
      [] node.type = "AST_BREAK" -> compile_break(K)
      [] node.type = "AST_RETURN" -> compile_return(K, node)
      [] node.type = "AST_BLOCK" -> compile_block(K, node)
      [] node.type = "AST_FN" -> compile_fn(K, node)
      [] OTHER -> CompileExprStmtEnd(compile_expr(K, node))

\* compile(ast): [function, messages], the FunctionProto of <main> and what
\* compiling wrote to stderr
CompileEnd(K) ==
    [function |-> Cur(EmitAll(K, <<OP_RET, 0>>)).function, messages |-> K[1].messages]

compile(ast) == CompileEnd(CompileStmts(<<compiler_init("<main>")>>, ast.stmts, 1))

(***************************************************************************)
(* Virtual machine (vm.c) and its heap objects                             *)
(***************************************************************************)

MAX_REGISTERS == 256
ClearedWindow == 32      \* the registers OP_CALL looks at to set them to none
MAX_FRAMES == 64

VARIABLES
    registers,      \* vm->registers: [0 .. MAX_REGISTERS-1 -> Value]
    frames,         \* vm->frames[0 .. frame_count-1]: [closure, ip, base_register, return_register]
    open_upvalues,  \* vm->open_upvalues: the list of Upvalue identities, head first
    upvalues,       \* every Upvalue allocated: [location, closed, is_closed]
    closures,       \* every Closure allocated: [refcount, proto, upvalues]
    arrays,         \* every Array allocated: [refcount, capacity, length, data, freed]
    iterators,      \* every Iterator allocated: [source, index]
    globals,        \* vm->globals[0 .. global_count-1]: [name, value]
    natives,        \* vm->natives[0 .. native_count-1]: [name, func]
    out,            \* the lines written to stdout
    err,            \* the lines written to stderr
    pc,             \* "host", "running" (inside mica_run's loop) or "hung"
    todo,           \* the calls the host has still to make
    last,           \* the host call that returned last and what it returned
    run_base,       \* frame_count when the running mica_run was entered
    script          \* which sequence of calls the host makes: [kind, n, m, ops]

(***************************************************************************)
(* The interned strings of the process (string.c) and the globals of two   *)
(* interpreters that use them, each from a thread of its own               *)
(***************************************************************************)

VARIABLES
    strings,        \* every String allocated: [refcount, length, hash, data, freed, intact]
    intern_table,   \* the static table: [0 .. INTERN_TABLE_SIZE-1 -> String identity or 0]
    instances,      \* the VMs of two mica_new calls: [globals], the entries are [name, value]
    threads,        \* the thread that uses each VM: where it is in its call and what it holds
    process,        \* "running", or "aborted" once free() has detected a double free
    stored,         \* per VM and name, the value the host or the program stored last
    writers         \* per String, the VMs whose calls have written its refcount

internvars == <<strings, intern_table, instances, threads, process, stored, writers>>

vmvars == <<registers, frames, open_upvalues, upvalues, closures, arrays, iterators,
            globals, natives, out, err, pc, todo, last, run_base, script>>

(***************************************************************************)
(* One jump on its way from the compiler to the VM, checked on its own     *)
(***************************************************************************)

VARIABLES
    jump,           \* [site, target, bytes, ip, stage]: see JumpInit
    build,          \* [kind, n, phase, i, K]: see BuildInit
    names,          \* [K, steps, found, first]: see NamesInit
    walk            \* [delivered, has, calls]: see WalkInit

unitvars == <<jump, build, names, walk>>

vars == <<vmvars, internvars, unitvars>>

frame_count == Len(frames)

\* CallFrame* frame of mica_run: always the top of the frame stack
frame == frames[Len(frames)]

proto == closures[frame.closure].proto

\* the byte at frame->ip + k
Code(k) == proto.code[frame.ip + k + 1]

Reg(r) == registers[frame.base_register + r]

\* frame->ip after n bytes have been read
Advance(n) == [frames EXCEPT ![Len(frames)].ip = @ + n]

\* (hi << 8) | lo, without the conversion to int16_t
DecodeShortUnsigned(hi, lo) == hi * 256 + lo

\* (int16_t)((hi << 8) | lo)
DecodeShort(hi, lo) == Int16(hi * 256 + lo)

\* READ_SHORT() of the two bytes at frame->ip + k
ReadShort(k) == DecodeShort(Code(k), Code(k + 1))

value_closure(id) == [type |-> "closure", v |-> id]
value_array_ref(id) == [type |-> "array", v |-> id]
value_native(f) == [type |-> "native", v |-> f]

\* the NativeFunction pointers of builtins.c, below every Iterator identity
builtin_print == -1
builtin_len == -2

value_is_truthy(val) ==
    CASE val.type = "bool" -> val.v
      [] val.type = "none" -> FALSE
      [] val.type \in {"i32", "f32"} -> val.v # 0
      [] OTHER -> TRUE

\* value_equal with the defect of comparing an integer and a float by value
ValueEqualPromoted(a, b) ==
    IF a.type \in {"i32", "f32"} /\ b.type \in {"i32", "f32"}
    THEN (IF a.type = "i32" THEN a.v * 1000 ELSE a.v)
             = (IF b.type = "i32" THEN b.v * 1000 ELSE b.v)
    ELSE a.type = b.type /\ (a.type = "none" \/ a.v = b.v)

value_equal(a, b) == a.type = b.type /\ (a.type = "none" \/ a.v = b.v)

\* array_release on array `id` in heap `heap`, and value_free on a Value
RECURSIVE array_release(_, _), FreeElements(_, _, _)
value_free(heap, val) ==
    IF val.type = "array" THEN array_release(heap, val.v) ELSE heap

FreeElements(heap, data, i) ==
    IF i > Len(data) THEN heap ELSE FreeElements(value_free(heap, data[i]), data, i + 1)

array_release(heap, id) ==
    IF heap[id].refcount - 1 = 0
    THEN FreeElements([heap EXCEPT ![id].refcount = 0, ![id].freed = TRUE],
                      heap[id].data, 1)
    ELSE [heap EXCEPT ![id].refcount = @ - 1]

array_new(capacity) ==
    [refcount |-> 1, capacity |-> IF capacity > 0 THEN capacity ELSE 8,
     length |-> 0, data |-> <<>>, freed |-> FALSE]

array_len(arr) == arr.length

\* arr->data keeps the `length` live elements; the slots above them hold None
array_get(arr, idx) == IF idx >= arr.length THEN value_none ELSE arr.data[idx + 1]

array_set(heap, id, idx, val) ==
    IF idx >= heap[id].length THEN heap
    ELSE [value_free(heap, heap[id].data[idx + 1]) EXCEPT ![id].data[idx + 1] = val]

array_push(arr, val) ==
    [arr EXCEPT !.capacity = IF arr.length >= @ THEN @ * 2 ELSE @,
                !.length = @ + 1, !.data = Append(@, val)]

iter_new(iterable) == [source |-> iterable, index |-> 0]

\* iter_has_next with the defect of admitting the index one past the end
IterHasNextInclusive(it) ==
    it.source.type = "array" /\ it.index <= array_len(arrays[it.source.v])

iter_has_next(it) ==
    it.source.type = "array" /\ it.index < array_len(arrays[it.source.v])

\* the Value iter_next returns; the iterator advances exactly when iter_has_next
iter_next(it) ==
    IF iter_has_next(it) THEN array_get(arrays[it.source.v], it.index) ELSE value_none

find_global(name) ==
    LET m == {i \in 1..Len(globals) : globals[i].name = name}
    IN IF m = {} THEN 0 ELSE CHOOSE i \in m : \A j \in m : i <= j

mica_get_global(name) ==
    IF find_global(name) # 0 THEN globals[find_global(name)].value ELSE value_none

find_native(name) ==
    LET m == {i \in 1..Len(natives) : natives[i].name = name}
    IN IF m = {} THEN 0 ELSE natives[CHOOSE i \in m : \A j \in m : i <= j].func

\* capture_upvalue with the defect of linking a new upvalue at the head of the list
CaptureUpvalueAtHead(st, local) ==
    IF \E i \in 1..Len(st.open) : st.ups[st.open[i]].location = local
    THEN [ups |-> st.ups, open |-> st.open,
          id |-> CHOOSE id \in 1..Len(st.ups) :
                     \E i \in 1..Len(st.open) :
                         st.open[i] = id /\ st.ups[id].location = local]
    ELSE [ups |-> Append(st.ups, [location |-> local, closed |-> value_none,
                                  is_closed |-> FALSE]),
          open |-> <<Len(st.ups) + 1>> \o st.open,
          id |-> Len(st.ups) + 1]

\* capture_upvalue on [ups, open]: [ups, open, id]
capture_upvalue(st, local) ==
    LET RECURSIVE scan(_)
        scan(i) == IF i <= Len(st.open) /\ st.ups[st.open[i]].location > local
                   THEN scan(i + 1) ELSE i
        i == scan(1)
    IN IF i <= Len(st.open) /\ st.ups[st.open[i]].location = local
       THEN [ups |-> st.ups, open |-> st.open, id |-> st.open[i]]
       ELSE [ups |-> Append(st.ups, [location |-> local, closed |-> value_none,
                                     is_closed |-> FALSE]),
             open |-> SubSeq(st.open, 1, i - 1) \o <<Len(st.ups) + 1>>
                      \o SubSeq(st.open, i, Len(st.open)),
             id |-> Len(st.ups) + 1]

\* close_upvalues on [ups, open] with the registers `regs`
RECURSIVE close_upvalues(_, _, _), CloseUpvaluesWithoutCopy(_, _, _)
\* close_upvalues with the defect of not copying the register into the cell
CloseUpvaluesWithoutCopy(st, regs, lastReg) ==
    IF st.open # <<>> /\ st.ups[Head(st.open)].location >= lastReg
    THEN CloseUpvaluesWithoutCopy([ups |-> [st.ups EXCEPT ![Head(st.open)].is_closed = TRUE],
                                   open |-> Tail(st.open)],
                                  regs, lastReg)
    ELSE st

\* close_upvalues with the defect of leaving the upvalue of lastReg itself open
RECURSIVE CloseUpvaluesAbove(_, _, _)
CloseUpvaluesAbove(st, regs, lastReg) ==
    IF st.open # <<>> /\ st.ups[Head(st.open)].location > lastReg
    THEN LET id == Head(st.open) IN
         CloseUpvaluesAbove([ups |-> [st.ups EXCEPT ![id].closed = regs[st.ups[id].location],
                                                    ![id].is_closed = TRUE],
                             open |-> Tail(st.open)],
                            regs, lastReg)
    ELSE st

close_upvalues(st, regs, lastReg) ==
    IF st.open # <<>> /\ st.ups[Head(st.open)].location >= lastReg
    THEN LET id == Head(st.open) IN
         close_upvalues([ups |-> [st.ups EXCEPT ![id].closed = regs[st.ups[id].location],
                                                ![id].is_closed = TRUE],
                         open |-> Tail(st.open)],
                        regs, lastReg)
    ELSE st

\* *upval->location
UpvalueRead(id) ==
    IF upvalues[id].is_closed THEN upvalues[id].closed
    ELSE registers[upvalues[id].location]

(***************************************************************************)
(* value_print and the native functions the host registers (builtins.c)    *)
(***************************************************************************)

DigitChar(d) == SubSeq("0123456789", d + 1, d + 1)

\* printf("%d") of a non-negative integer
RECURSIVE NatText(_)
NatText(n) == IF n < 10 THEN DigitChar(n) ELSE NatText(n \div 10) \o DigitChar(n % 10)

IntText(n) == IF n < 0 THEN "-" \o NatText(-n) ELSE NatText(n)

\* printf("%g") of a float held in thousandths
FloatText(n) ==
    LET a == IF n < 0 THEN -n ELSE n
        f == a % 1000
        frac == IF f = 0 THEN ""
                ELSE IF f % 100 = 0 THEN "." \o DigitChar(f \div 100)
                ELSE IF f % 10 = 0
                THEN "." \o DigitChar(f \div 100) \o DigitChar((f \div 10) % 10)
                ELSE "." \o DigitChar(f \div 100) \o DigitChar((f \div 10) % 10)
                         \o DigitChar(f % 10)
    IN (IF n < 0 THEN "-" ELSE "") \o NatText(a \div 1000) \o frac

RECURSIVE value_print(_), array_print(_, _)
value_print(val) ==
    CASE val.type = "i32" -> IntText(val.v)
      [] val.type = "f32" -> FloatText(val.v)
      [] val.type = "bool" -> IF val.v THEN "true" ELSE "false"
      [] val.type = "none" -> "None"
      [] val.type = "array" -> "[" \o array_print(arrays[val.v].data, 1) \o "]"
      [] val.type = "string" -> val.v
      [] val.type = "closure" -> "<closure>"
      [] val.type = "native" -> "<native function>"

array_print(data, i) ==
    IF i > Len(data) THEN ""
    ELSE (IF i > 1 THEN ", " ELSE "") \o value_print(data[i]) \o array_print(data, i + 1)

\* the line builtin_print writes for its arguments
RECURSIVE PrintLine(_, _)
PrintLine(args, i) ==
    IF i > Len(args) THEN ""
    ELSE (IF i > 1 THEN " " ELSE "") \o value_print(args[i]) \o PrintLine(args, i + 1)

builtin_len_result(args) ==
    IF Len(args) < 1 THEN value_i32(0)
    ELSE IF args[1].type = "array" THEN value_i32(array_len(arrays[args[1].v]))
    ELSE value_i32(0)

(***************************************************************************)
(* mica_run: one action for each instruction handler                       *)
(***************************************************************************)

\* the operand bytes of an instruction that name a register of the frame
RegisterOperands(op) ==
    CASE op \in {OP_LOAD_CONST, OP_LOAD_GLOBAL, OP_STORE_GLOBAL, OP_LOAD_UPVAL,
                 OP_STORE_UPVAL, OP_ARRAY_NEW} -> {2}
      [] op \in {OP_LOAD_LOCAL, OP_MOVE, OP_STORE_LOCAL, OP_NEG, OP_ARRAY_PUSH,
                 OP_ITER_NEW, OP_ITER_NEXT, OP_ITER_HAS_NEXT} -> {1, 2}
      [] op \in {OP_ADD, OP_SUB, OP_MUL, OP_DIV, OP_MOD, OP_EQ, OP_NE, OP_LT, OP_LE,
                 OP_GT, OP_GE, OP_ARRAY_GET, OP_ARRAY_SET} -> {1, 2, 3}
      [] op = OP_JMP_IF_NOT -> {1}
      [] op = OP_RET -> IF Code(1) > 0 THEN {2} ELSE {}
      [] op = OP_CALL -> {1, 3}
      [] op = OP_CLOSURE -> {2}
      [] OTHER -> {}

\* the indices into vm->registers the instruction at frame->ip reads or writes:
\* base_register + operand, and for the call of a native the arguments it copies
Touched ==
    {frame.base_register + Code(k) : k \in RegisterOperands(Code(0))}
        \cup (IF /\ Code(0) = OP_CALL
                 /\ frame.base_register + Code(1) < MAX_REGISTERS
                 /\ registers[frame.base_register + Code(1)].type = "native"
              THEN {frame.base_register + Code(1) + i : i \in 1..Code(2)}
              ELSE {})

InFile == Touched \subseteq 0..(MAX_REGISTERS - 1)

Running(ops) == pc = "running" /\ Code(0) \in ops /\ InFile

\* an instruction whose base_register + operand is MAX_REGISTERS or more reads
\* or writes past vm->registers, in the frame array that follows it in struct
\* VM; what the VM does from then on is undefined
RegisterOverrun ==
    /\ pc = "running"
    /\ ~InFile
    /\ pc' = "registers overrun"
    /\ UNCHANGED <<registers, frames, open_upvalues, upvalues, closures, arrays, iterators,
                   globals, natives, out, err, todo, last, run_base, script, internvars,
                   unitvars>>

SetReg(r, val) == [registers EXCEPT ![frame.base_register + r] = val]

\* return false from mica_run after n bytes of the instruction were read
Fail(n, message) ==
    /\ frames' = Advance(n)
    /\ pc' = "host"
    /\ last' = [op |-> "run", result |-> FALSE]
    /\ err' = Append(err, message)

LoadConst ==
    /\ Running({OP_LOAD_CONST})
    /\ registers' = SetReg(Code(2), proto.constants[Code(1) + 1])
    /\ frames' = Advance(3)
    /\ UNCHANGED <<open_upvalues, upvalues, closures, arrays, iterators, globals,
                   natives, out, err, pc, todo, last, run_base, script, internvars, unitvars>>

\* OP_LOAD_LOCAL and OP_MOVE: registers[base + dest] = registers[base + src]
LoadLocal ==
    /\ Running({OP_LOAD_LOCAL, OP_MOVE})
    /\ registers' = SetReg(Code(2), Reg(Code(1)))
    /\ frames' = Advance(3)
    /\ UNCHANGED <<open_upvalues, upvalues, closures, arrays, iterators, globals,
                   natives, out, err, pc, todo, last, run_base, script, internvars, unitvars>>

StoreLocal ==
    /\ Running({OP_STORE_LOCAL})
    /\ registers' = SetReg(Code(1), Reg(Code(2)))
    /\ frames' = Advance(3)
    /\ UNCHANGED <<open_upvalues, upvalues, closures, arrays, iterators, globals,
                   natives, out, err, pc, todo, last, run_base, script, internvars, unitvars>>

LoadGlobal ==
    /\ Running({OP_LOAD_GLOBAL})
    /\ LET name == proto.constants[Code(1) + 1].v
           g == find_global(name)
           native == find_native(name)
       IN /\ registers' = SetReg(Code(2), IF g # 0 THEN globals[g].value
                                          ELSE IF native # 0 THEN value_native(native)
                                          ELSE value_none)
          /\ err' = IF g = 0 /\ native = 0
                    THEN Append(err, "undefined variable: " \o name) ELSE err
    /\ frames' = Advance(3)
    /\ UNCHANGED <<open_upvalues, upvalues, closures, arrays, iterators, globals,
                   natives, out, pc, todo, last, run_base, script, internvars, unitvars>>

\* the refcount++ OP_STORE_GLOBAL applies to the object of the stored value
RetainArray(heap, val) ==
    IF val.type = "array" THEN [heap EXCEPT ![val.v].refcount = @ + 1] ELSE heap

RetainClosure(heap, val) ==
    IF val.type = "closure" THEN [heap EXCEPT ![val.v].refcount = @ + 1] ELSE heap

StoreGlobal ==
    /\ Running({OP_STORE_GLOBAL})
    /\ LET name == proto.constants[Code(1) + 1].v
           src_val == Reg(Code(2))
           g == find_global(name)
       IN /\ globals' = IF g # 0 THEN [globals EXCEPT ![g].value = src_val]
                        ELSE Append(globals, [name |-> name, value |-> src_val])
          /\ arrays' = RetainArray(IF g # 0 THEN value_free(arrays, globals[g].value)
                                   ELSE arrays, src_val)
          /\ closures' = RetainClosure(closures, src_val)
    /\ frames' = Advance(3)
    /\ UNCHANGED <<registers, open_upvalues, upvalues, iterators, natives, out, err,
                   pc, todo, last, run_base, script, internvars, unitvars>>

LoadUpval ==
    /\ Running({OP_LOAD_UPVAL})
    /\ registers' = SetReg(Code(2), UpvalueRead(closures[frame.closure].upvalues[Code(1) + 1]))
    /\ frames' = Advance(3)
    /\ UNCHANGED <<open_upvalues, upvalues, closures, arrays, iterators, globals,
                   natives, out, err, pc, todo, last, run_base, script, internvars, unitvars>>

\* OP_STORE_UPVAL with the defect of writing to the register the cell was
\* opened on after the cell has been closed
StoreUpvalToRegister ==
    /\ Running({OP_STORE_UPVAL})
    /\ LET id == closures[frame.closure].upvalues[Code(1) + 1] IN
       registers' = [registers EXCEPT ![upvalues[id].location] = Reg(Code(2))]
    /\ frames' = Advance(3)
    /\ UNCHANGED <<open_upvalues, upvalues, closures, arrays, iterators, globals,
                   natives, out, err, pc, todo, last, run_base, script, internvars, unitvars>>

\* *upval->location = registers[base + src]
StoreUpval ==
    /\ Running({OP_STORE_UPVAL})
    /\ LET id == closures[frame.closure].upvalues[Code(1) + 1] IN
       IF upvalues[id].is_closed
       THEN /\ upvalues' = [upvalues EXCEPT ![id].closed = Reg(Code(2))]
            /\ UNCHANGED registers
       ELSE /\ registers' = [registers EXCEPT ![upvalues[id].location] = Reg(Code(2))]
            /\ UNCHANGED upvalues
    /\ frames' = Advance(3)
    /\ UNCHANGED <<open_upvalues, closures, arrays, iterators, globals,
                   natives, out, err, pc, todo, last, run_base, script, internvars, unitvars>>

\* C integer division and remainder truncate toward zero
TruncDiv(a, b) ==
    LET q == (IF a < 0 THEN -a ELSE a) \div (IF b < 0 THEN -b ELSE b)
    IN IF (a < 0) = (b < 0) THEN q ELSE -q

TruncRem(a, b) == a - b * TruncDiv(a, b)

\* (float)as_i32 or as_f32 of a numeric operand, in thousandths
AsF32(val) == CASE val.type = "i32" -> val.v * 1000 [] val.type = "f32" -> val.v

\* ArithResult with the defect of tagging the result as the left operand is
ArithResultTaggedAsLeft(op, a, b) ==
    IF a.type = "i32"
    THEN value_i32(CASE op = OP_ADD -> a.v + b.v
                     [] op = OP_SUB -> a.v - b.v
                     [] op = OP_MUL -> a.v * b.v
                     [] op = OP_DIV /\ b.v # 0 -> TruncDiv(a.v, b.v))
    ELSE value_f32(CASE op = OP_ADD -> AsF32(a) + AsF32(b)
                     [] op = OP_SUB -> AsF32(a) - AsF32(b)
                     [] op = OP_MUL -> TruncDiv(AsF32(a) * AsF32(b), 1000)
                     [] op = OP_DIV /\ AsF32(b) # 0 ->
                            TruncDiv(AsF32(a) * 1000, AsF32(b)))

\* the result of OP_ADD, OP_SUB, OP_MUL, OP_DIV on two numeric operands
ArithResult(op, a, b) ==
    IF a.type = "i32" /\ b.type = "i32"
    THEN value_i32(CASE op = OP_ADD -> a.v + b.v
                     [] op = OP_SUB -> a.v - b.v
                     [] op = OP_MUL -> a.v * b.v
                     [] op = OP_DIV /\ b.v # 0 -> TruncDiv(a.v, b.v))
    ELSE value_f32(CASE op = OP_ADD -> AsF32(a) + AsF32(b)
                     [] op = OP_SUB -> AsF32(a) - AsF32(b)
                     [] op = OP_MUL -> TruncDiv(AsF32(a) * AsF32(b), 1000)
                     [] op = OP_DIV /\ AsF32(b) # 0 ->
                            TruncDiv(AsF32(a) * 1000, AsF32(b)))

Arith ==
    /\ Running({OP_ADD, OP_SUB, OP_MUL, OP_DIV})
    /\ registers' = SetReg(Code(3), ArithResult(Code(0), Reg(Code(1)), Reg(Code(2))))
    /\ frames' = Advance(4)
    /\ UNCHANGED <<open_upvalues, upvalues, closures, arrays, iterators, globals,
                   natives, out, err, pc, todo, last, run_base, script, internvars, unitvars>>

\* OP_MOD reads as_i32 of both operands whatever their tags
Mod ==
    /\ Running({OP_MOD})
    /\ Reg(Code(1)).type = "i32" /\ Reg(Code(2)).type = "i32" /\ Reg(Code(2)).v # 0
    /\ registers' = SetReg(Code(3), value_i32(TruncRem(Reg(Code(1)).v, Reg(Code(2)).v)))
    /\ frames' = Advance(4)
    /\ UNCHANGED <<open_upvalues, upvalues, closures, arrays, iterators, globals,
                   natives, out, err, pc, todo, last, run_base, script, internvars, unitvars>>

Neg ==
    /\ Running({OP_NEG})
    /\ registers' = SetReg(Code(2),
                           CASE Reg(Code(1)).type = "i32" -> value_i32(-Reg(Code(1)).v)
                             [] Reg(Code(1)).type = "f32" -> value_f32(-Reg(Code(1)).v))
    /\ frames' = Advance(3)
    /\ UNCHANGED <<open_upvalues, upvalues, closures, arrays, iterators, globals,
                   natives, out, err, pc, todo, last, run_base, script, internvars, unitvars>>

\* OP_EQ and OP_NE
Equality ==
    /\ Running({OP_EQ, OP_NE})
    /\ registers' = SetReg(Code(3),
                           value_bool(value_equal(Reg(Code(1)), Reg(Code(2)))
                                      = (Code(0) = OP_EQ)))
    /\ frames' = Advance(4)
    /\ UNCHANGED <<open_upvalues, upvalues, closures, arrays, iterators, globals,
                   natives, out, err, pc, todo, last, run_base, script, internvars, unitvars>>

\* the result of OP_LT, OP_LE, OP_GT, OP_GE on two numeric operands
CompareResult(op, a, b) ==
    LET x == IF a.type = "i32" /\ b.type = "i32" THEN a.v ELSE AsF32(a)
        y == IF a.type = "i32" /\ b.type = "i32" THEN b.v ELSE AsF32(b)
    IN value_bool(CASE op = OP_LT -> x < y [] op = OP_LE -> x <= y
                    [] op = OP_GT -> x > y [] op = OP_GE -> x >= y)

Compare ==
    /\ Running({OP_LT, OP_LE, OP_GT, OP_GE})
    /\ registers' = SetReg(Code(3), CompareResult(Code(0), Reg(Code(1)), Reg(Code(2))))
    /\ frames' = Advance(4)
    /\ UNCHANGED <<open_upvalues, upvalues, closures, arrays, iterators, globals,
                   natives, out, err, pc, todo, last, run_base, script, internvars, unitvars>>

Jmp ==
    /\ Running({OP_JMP})
    /\ frames' = Advance(3 + ReadShort(1))
    /\ UNCHANGED <<registers, open_upvalues, upvalues, closures, arrays, iterators,
                   globals, natives, out, err, pc, todo, last, run_base, script, internvars, unitvars>>

JmpIfNot ==
    /\ Running({OP_JMP_IF_NOT})
    /\ frames' = Advance(IF value_is_truthy(Reg(Code(1))) THEN 4 ELSE 4 + ReadShort(2))
    /\ UNCHANGED <<registers, open_upvalues, upvalues, closures, arrays, iterators,
                   globals, natives, out, err, pc, todo, last, run_base, script, internvars, unitvars>>

Ret ==
    /\ Running({OP_RET})
    /\ LET result == IF Code(1) > 0 THEN Reg(Code(2)) ELSE value_none
           st == close_upvalues([ups |-> upvalues, open |-> open_upvalues],
                                registers, frame.base_register)
       IN /\ upvalues' = st.ups
          /\ open_upvalues' = st.open
          /\ frames' = SubSeq(frames, 1, Len(frames) - 1)
          /\ IF frame_count - 1 = 0
             THEN /\ pc' = "host"
                  /\ last' = [op |-> "run", result |-> TRUE]
                  /\ UNCHANGED registers
             ELSE /\ registers' = [registers EXCEPT ![frame.return_register] = result]
                  /\ UNCHANGED <<pc, last>>
    /\ UNCHANGED <<closures, arrays, iterators, globals, natives, out, err, todo,
                   run_base, script, internvars, unitvars>>

\* registers[base + func_reg + 1 + i] for i < nargs
CallArgs(func_reg, nargs) ==
    [i \in 1..nargs |-> registers[frame.base_register + func_reg + i]]

\* CallError with the defect of admitting one frame more than vm->frames holds
CallErrorAbove(func_val) ==
    IF func_val.type = "native" THEN ""
    ELSE IF func_val.type = "closure"
    THEN IF frame_count > MAX_FRAMES THEN "stack overflow" ELSE ""
    ELSE "not a function"

\* the message with which OP_CALL returns false, "" if the call proceeds
CallError(func_val) ==
    IF func_val.type = "native" THEN ""
    ELSE IF func_val.type = "closure"
    THEN IF frame_count >= MAX_FRAMES THEN "stack overflow" ELSE ""
    ELSE "not a function"

Call ==
    /\ Running({OP_CALL})
    /\ LET func_reg == Code(1)
           nargs == Code(2)
           dest == Code(3)
           func_val == Reg(func_reg)
           new_base == frame.base_register + func_reg + 1
       IN IF CallError(func_val) # ""
          THEN Fail(4, CallError(func_val)) /\ UNCHANGED <<registers, out>>
          ELSE IF func_val.type = "native"
          THEN /\ func_val.v \in {builtin_print, builtin_len}
               /\ registers' = SetReg(dest,
                      IF func_val.v = builtin_print THEN value_none
                      ELSE builtin_len_result(CallArgs(func_reg, nargs)))
               /\ out' = IF func_val.v = builtin_print
                         THEN Append(out, PrintLine(CallArgs(func_reg, nargs), 1))
                         ELSE out
               /\ frames' = Advance(4)
               /\ UNCHANGED <<err, pc, last>>
          ELSE /\ registers' =
                    [i \in 0..(MAX_REGISTERS - 1) |->
                       IF i >= new_base + nargs /\ i < new_base + ClearedWindow
                       THEN value_none ELSE registers[i]]
               /\ frames' = Append(Advance(4),
                                   [closure |-> func_val.v, ip |-> 0,
                                    base_register |-> new_base,
                                    return_register |->
                                        (frame.base_register + dest) % 256])
               /\ UNCHANGED <<out, err, pc, last>>
    /\ UNCHANGED <<open_upvalues, upvalues, closures, arrays, iterators, globals,
                   natives, todo, run_base, script, internvars, unitvars>>

\* the for loop of OP_CLOSURE over the is_local, index pairs: [ups, open, ids]
RECURSIVE CaptureAll(_, _, _)
CaptureAll(st, i, count) ==
    IF i >= count THEN st
    ELSE LET is_local == Code(4 + 2 * i)
             index == Code(5 + 2 * i)
             c == capture_upvalue([ups |-> st.ups, open |-> st.open],
                                  frame.base_register + index)
         IN IF is_local # 0
            THEN CaptureAll([ups |-> c.ups, open |-> c.open,
                             ids |-> Append(st.ids, c.id)], i + 1, count)
            ELSE CaptureAll([st EXCEPT !.ids =
                                 Append(@, closures[frame.closure].upvalues[index + 1])],
                            i + 1, count)

MakeClosure ==
    /\ Running({OP_CLOSURE})
    /\ LET upvalue_count == Code(3)
           st == CaptureAll([ups |-> upvalues, open |-> open_upvalues, ids |-> <<>>],
                            0, upvalue_count)
       IN /\ upvalues' = st.ups
          /\ open_upvalues' = st.open
          /\ closures' = Append(closures, [refcount |-> 1,
                                           proto |-> proto.constants[Code(1) + 1].v,
                                           upvalues |-> st.ids])
          /\ registers' = SetReg(Code(2), value_closure(Len(closures) + 1))
          /\ frames' = Advance(4 + 2 * upvalue_count)
    /\ UNCHANGED <<arrays, iterators, globals, natives, out, err, pc, todo, last,
                   run_base, script, internvars, unitvars>>

CloseUpval ==
    /\ Running({OP_CLOSE_UPVAL})
    /\ LET st == close_upvalues([ups |-> upvalues, open |-> open_upvalues],
                                registers, frame.base_register + Code(1))
       IN upvalues' = st.ups /\ open_upvalues' = st.open
    /\ frames' = Advance(2)
    /\ UNCHANGED <<registers, closures, arrays, iterators, globals, natives, out, err,
                   pc, todo, last, run_base, script, internvars, unitvars>>

ArrayNew ==
    /\ Running({OP_ARRAY_NEW})
    /\ arrays' = Append(arrays, array_new(Code(1)))
    /\ registers' = SetReg(Code(2), value_array_ref(Len(arrays) + 1))
    /\ frames' = Advance(3)
    /\ UNCHANGED <<open_upvalues, upvalues, closures, iterators, globals, natives,
                   out, err, pc, todo, last, run_base, script, internvars, unitvars>>

\* ArrayAccessError with the defect of admitting the index one past the end
ArrayAccessErrorAbove(arr, idx) ==
    IF arr.type # "array" THEN "not an array"
    ELSE IF idx.type # "i32" THEN "array index must be an integer"
    ELSE IF idx.v < 0 \/ idx.v > array_len(arrays[arr.v])
    THEN "array index out of bounds"
    ELSE ""

\* the message with which OP_ARRAY_GET and OP_ARRAY_SET return false, "" if none
ArrayAccessError(arr, idx) ==
    IF arr.type # "array" THEN "not an array"
    ELSE IF idx.type # "i32" THEN "array index must be an integer"
    ELSE IF idx.v < 0 \/ idx.v >= array_len(arrays[arr.v])
    THEN "array index out of bounds"
    ELSE ""

ArrayGet ==
    /\ Running({OP_ARRAY_GET})
    /\ LET arr == Reg(Code(1))
           idx == Reg(Code(2))
       IN IF ArrayAccessError(arr, idx) # ""
          THEN Fail(4, ArrayAccessError(arr, idx)) /\ UNCHANGED registers
          ELSE /\ registers' = SetReg(Code(3), array_get(arrays[arr.v], idx.v))
               /\ frames' = Advance(4)
               /\ UNCHANGED <<err, pc, last>>
    /\ UNCHANGED <<open_upvalues, upvalues, closures, arrays, iterators, globals,
                   natives, out, todo, run_base, script, internvars, unitvars>>

ArraySet ==
    /\ Running({OP_ARRAY_SET})
    /\ LET arr == Reg(Code(1))
           idx == Reg(Code(2))
       IN IF ArrayAccessError(arr, idx) # ""
          THEN Fail(4, ArrayAccessError(arr, idx)) /\ UNCHANGED arrays
          ELSE /\ arrays' = array_set(arrays, arr.v, idx.v, Reg(Code(3)))
               /\ frames' = Advance(4)
               /\ UNCHANGED <<err, pc, last>>
    /\ UNCHANGED <<registers, open_upvalues, upvalues, closures, iterators, globals,
                   natives, out, todo, run_base, script, internvars, unitvars>>

ArrayPush ==
    /\ Running({OP_ARRAY_PUSH})
    /\ Reg(Code(1)).type = "array"
    /\ arrays' = [arrays EXCEPT ![Reg(Code(1)).v] = array_push(@, Reg(Code(2)))]
    /\ frames' = Advance(3)
    /\ UNCHANGED <<registers, open_upvalues, upvalues, closures, iterators, globals,
                   natives, out, err, pc, todo, last, run_base, script, internvars, unitvars>>

IterNew ==
    /\ Running({OP_ITER_NEW})
    /\ iterators' = Append(iterators, iter_new(Reg(Code(1))))
    /\ registers' = SetReg(Code(2), value_native(Len(iterators) + 1))
    /\ frames' = Advance(3)
    /\ UNCHANGED <<open_upvalues, upvalues, closures, arrays, globals, natives,
                   out, err, pc, todo, last, run_base, script, internvars, unitvars>>

\* a native Value that holds an Iterator, not a NativeFunction
IsIterator(val) == val.type = "native" /\ val.v > 0

IterNext ==
    /\ Running({OP_ITER_NEXT})
    /\ LET it == Reg(Code(1)) IN
       IF it.type # "native"
       THEN Fail(3, "not an iterator") /\ UNCHANGED <<registers, iterators>>
       ELSE /\ IsIterator(it)
            /\ registers' = SetReg(Code(2), iter_next(iterators[it.v]))
            /\ iterators' = IF iter_has_next(iterators[it.v])
                            THEN [iterators EXCEPT ![it.v].index = @ + 1]
                            ELSE iterators
            /\ frames' = Advance(3)
            /\ UNCHANGED <<err, pc, last>>
    /\ UNCHANGED <<open_upvalues, upvalues, closures, arrays, globals, natives,
                   out, todo, run_base, script, internvars, unitvars>>

IterHasNext ==
    /\ Running({OP_ITER_HAS_NEXT})
    /\ LET it == Reg(Code(1)) IN
       IF it.type # "native"
       THEN Fail(3, "not an iterator") /\ UNCHANGED registers
       ELSE /\ IsIterator(it)
            /\ registers' = SetReg(Code(2), value_bool(iter_has_next(iterators[it.v])))
            /\ frames' = Advance(3)
            /\ UNCHANGED <<err, pc, last>>
    /\ UNCHANGED <<open_upvalues, upvalues, closures, arrays, iterators, globals,
                   natives, out, todo, run_base, script, internvars, unitvars>>

(***************************************************************************)
(* The host: mica_new, then mica_register_native, mica_compile and         *)
(* mica_run in the order of its script                                     *)
(***************************************************************************)

Register(name, func) == [op |-> "register", name |-> name, func |-> func, source |-> ""]
Compile(source) == [op |-> "compile", name |-> "", func |-> 0, source |-> source]
Run == [op |-> "run", name |-> "", func |-> 0, source |-> ""]

NextCall(op) == pc = "host" /\ todo # <<>> /\ Head(todo).op = op

MicaRegisterNative ==
    /\ NextCall("register")
    /\ natives' = IF Len(natives) >= 64 THEN natives
                  ELSE Append(natives, [name |-> Head(todo).name, func |-> Head(todo).func])
    /\ todo' = Tail(todo)
    /\ last' = [op |-> "register", result |-> TRUE]
    /\ UNCHANGED <<registers, frames, open_upvalues, upvalues, closures, arrays,
                   iterators, globals, out, err, pc, run_base, script, internvars, unitvars>>

\* what the uninitialised parser.previous.type may be when parse first reads it
JunkTypes == {"TOK_SEMICOLON", "TOK_EOF"}

\* a parse that never returns leaves the host inside mica_compile for ever.
\* The frame is pushed without a look at frame_count: at MAX_FRAMES it is
\* written past vm->frames, over frame_count and the fields after it, and
\* what the VM does from then on is undefined
MicaCompile ==
    /\ NextCall("compile")
    /\ \E junk \in JunkTypes :
         LET r == parse(Head(todo).source, junk)
             c == compile(r.ast)
         IN
         /\ IF r.hang
            THEN /\ pc' = "hung"
                 /\ err' = err \o r.errors
                 /\ UNCHANGED <<frames, closures, last>>
            ELSE IF r.ast.type = "NULL"
            THEN /\ last' = [op |-> "compile", result |-> FALSE]
                 /\ err' = err \o r.errors
                 /\ UNCHANGED <<frames, closures, pc>>
            ELSE /\ closures' = Append(closures, [refcount |-> 1, proto |-> c.function,
                                                  upvalues |-> <<>>])
                 /\ err' = err \o r.errors \o c.messages
                 /\ frames' = Append(frames, [closure |-> Len(closures) + 1, ip |-> 0,
                                              base_register |-> 0, return_register |-> 0])
                 /\ last' = [op |-> "compile", result |-> TRUE]
                 /\ pc' = IF frame_count >= MAX_FRAMES THEN "frames overrun" ELSE pc
    /\ todo' = Tail(todo)
    /\ UNCHANGED <<registers, open_upvalues, upvalues, arrays, iterators, globals,
                   natives, out, run_base, script, internvars, unitvars>>

\* mica_run up to its first instruction
MicaRun ==
    /\ NextCall("run")
    /\ IF frame_count = 0
       THEN last' = [op |-> "run", result |-> FALSE] /\ UNCHANGED <<pc, run_base>>
       ELSE pc' = "running" /\ run_base' = frame_count /\ UNCHANGED last
    /\ todo' = Tail(todo)
    /\ UNCHANGED <<registers, frames, open_upvalues, upvalues, closures, arrays,
                   iterators, globals, natives, out, err, script, internvars, unitvars>>

\* register_builtins of main
Builtins == <<Register("print", builtin_print), Register("len", builtin_len)>>

\* one program compiled and run, as run_file does
RunFile(source) == Builtins \o <<Compile(source), Run>>

(***************************************************************************)
(* The programs the host is given.  A script is [id, calls]; id is         *)
(* [kind, n, m, ops], the family of the program and its parameters.        *)
(***************************************************************************)

MaxCalls == 3       \* calls of the counter closure
MaxLen == 3         \* elements of an array literal
MaxIter == 3        \* iterations before a loop breaks

Id(kind, n, m, ops) == [kind |-> kind, n |-> n, m |-> m, ops |-> ops]

RECURSIVE Repeat(_, _)
Repeat(text, n) == IF n = 0 THEN "" ELSE text \o Repeat(text, n - 1)

\* the array literal [k, 2k, ..., nk]
RECURSIVE Elements(_, _)
Elements(n, k) ==
    IF n = 0 THEN ""
    ELSE Elements(n - 1, k) \o (IF n > 1 THEN ", " ELSE "") \o IntText(n * k)

ArrayLiteral(n, k) == "[" \o Elements(n, k) \o "]"

CounterSource(n) ==
    "fn make(){ let mut c = 0 return || { c = c + 1 return c } }  let f = make()"
        \o Repeat(" print(f())", n)

Scenario4Source ==
    "fn pair(){ let mut c = 0 let inc = || { c = c + 1 } let get = || { return c } "
        \o "return [inc, get] } let p = pair() p[0]() p[0]() print(p[1]())"

ForSumSource(n) ==
    "let a = " \o ArrayLiteral(n, 1)
        \o " let mut s = 0 for x in a { s = s + x } print(s)"

ForBreakSource(n) ==
    "let a = " \o ArrayLiteral(n, 1) \o " for x in a { break } print(7)"

LoopSource(n) ==
    "let mut i = 0 loop { if i >= " \o IntText(n) \o " { break } i = i + 1 } print(i)"

WhileSource(n) ==
    "let mut i = 0 while true { if i >= " \o IntText(n)
        \o " { break } i = i + 1 } print(i)"

NestedSource(n) ==
    "let mut i = 0 let mut j = 0 loop { loop { if i >= " \o IntText(n)
        \o " { break } i = i + 1 } j = j + 1 if j >= 2 { break } } print(i) print(j)"

\* let x = E for the expressions E over 1, 2, 3, 4 with the operators a, b, c
ExprOps == {"+", "-", "*"}

ExprText(shape, a, b, c) ==
    CASE shape = 1 -> "((1 " \o a \o " 2) " \o b \o " 3) " \o c \o " 4"
      [] shape = 2 -> "1 " \o a \o " (2 " \o b \o " (3 " \o c \o " 4))"
      [] shape = 3 -> "(1 " \o a \o " 2) " \o b \o " (3 " \o c \o " 4)"
      [] shape = 4 -> "1 " \o a \o " 2 " \o b \o " 3 " \o c \o " 4"

ExprSource(shape, ops) ==
    "let x = " \o ExprText(shape, SubSeq(ops, 1, 1), SubSeq(ops, 2, 2), SubSeq(ops, 3, 3))

\* what arithmetic says E is
Apply(op, x, y) ==
    CASE op = "+" -> x + y [] op = "-" -> x - y [] op = "*" -> x * y

RECURSIVE FlatValue(_, _, _, _, _)
FlatValue(acc, sign, term, ops, i) ==
    IF i > Len(ops) THEN acc + sign * term
    ELSE IF SubSeq(ops, i, i) = "*" THEN FlatValue(acc, sign, term * (i + 1), ops, i + 1)
    ELSE FlatValue(acc + sign * term, IF SubSeq(ops, i, i) = "+" THEN 1 ELSE -1,
                   i + 1, ops, i + 1)

ExprValue(shape, ops) ==
    LET a == SubSeq(ops, 1, 1)
        b == SubSeq(ops, 2, 2)
        c == SubSeq(ops, 3, 3)
    IN CASE shape = 1 -> Apply(c, Apply(b, Apply(a, 1, 2), 3), 4)
         [] shape = 2 -> Apply(a, 1, Apply(b, 2, Apply(c, 3, 4)))
         [] shape = 3 -> Apply(b, Apply(a, 1, 2), Apply(c, 3, 4))
         [] shape = 4 -> FlatValue(0, 1, 1, ops, 1)

\* a let without its variable name, and the statement that follows it
BadSource(n) ==
    "let = 5" \o
    CASE n = 0 -> ""
      [] n = 1 -> " fn f() { return 1 }"
      [] n = 2 -> " let y = 2"
      [] n = 3 -> " if true { print(1) }"
      [] n = 4 -> " while false { print(1) }"
      [] n = 5 -> " for x in [1] { break }"
      [] n = 6 -> " return 1"
      [] n = 7 -> " print(1)"

\* a call of what is not a function
NotFunctionSource(n) ==
    CASE n = 0 -> "let x = 5 x()"
      [] n = 1 -> "print(1) nofn() print(2)"
      [] n = 2 -> "fn make() { let mut c = 1 return || { c = c + 1 c() } } "
                      \o "let f = make() f()"

RecurseSource == "fn f() { f() } f()"

IndexText(m) == IF m < 0 THEN "0 - " \o NatText(-m) ELSE NatText(m)

ArrayGetSource(n, m) ==
    "let a = " \o ArrayLiteral(n, 10) \o " print(a[" \o IndexText(m) \o "])"

ArraySetSource(n, m) ==
    "let a = " \o ArrayLiteral(n, 10) \o " a[" \o IndexText(m) \o "] = 99 print(a["
        \o IndexText(m) \o "]) print(len(a))"

BadArraySource(n) ==
    CASE n = 0 -> "let a = 5 print(a[0])"
      [] n = 1 -> "let a = 5 a[0] = 1"
      [] n = 2 -> "let a = [10, 20] print(a[true])"
      [] n = 3 -> "let a = [10, 20] a[true] = 1"

\* the array a pushed into n other arrays, the slot of each overwritten after
AliasSource(n) ==
    "let a = [1]" \o (IF n >= 1 THEN " let b = [a]" ELSE "")
        \o (IF n >= 2 THEN " let c = [a]" ELSE "")
        \o (IF n >= 1 THEN " b[0] = 0" ELSE "")
        \o (IF n >= 2 THEN " c[0] = 0" ELSE "") \o " print(7)"

\* two closures over the local n of pair; each character of ops is one step:
\* L writes n in pair, A writes it through add, R reads it in pair, G reads it
\* through get, | returns from pair, a and g are A and G after the return
OpText(c) ==
    CASE c = "L" -> " n = n + 10"
      [] c = "A" -> " add()"
      [] c = "R" -> " print(n)"
      [] c = "G" -> " print(get())"
      [] c = "|" -> " return [add, get] } let p = pair()"
      [] c = "a" -> " p[0]()"
      [] c = "g" -> " print(p[1]())"

RECURSIVE OpsText(_, _)
OpsText(ops, i) ==
    IF i > Len(ops) THEN "" ELSE OpText(SubSeq(ops, i, i)) \o OpsText(ops, i + 1)

SharedSource(ops) ==
    "fn pair() { let mut n = 0 let add = || { n = n + 1 } let get = || { return n }"
        \o OpsText(ops, 1)

\* the lines the steps of ops print when every read returns the value written last
RECURSIVE SharedOut(_, _, _)
SharedOut(ops, i, n) ==
    IF i > Len(ops) THEN <<>>
    ELSE LET c == SubSeq(ops, i, i) IN
         CASE c = "L" -> SharedOut(ops, i + 1, n + 10)
           [] c \in {"A", "a"} -> SharedOut(ops, i + 1, n + 1)
           [] c \in {"R", "G", "g"} -> <<IntText(n)>> \o SharedOut(ops, i + 1, n)
           [] OTHER -> SharedOut(ops, i + 1, n)

SharedOpen ==
    {x \o y \o z : x \in {"L", "A"}, y \in {"L", "A"}, z \in {"R", "G"}}
        \cup {"ALGAR", "GLRAG"}

SharedClosed == {"g", "ag", "aag"}

\* the two closures capture the variable of a for loop, which the body reads
\* (n = 0) or assigns before it reads it (n = 1)
SharedForSource(n) ==
    "fn use(f, g) { return g } let a = [5] for x in a { "
        \o (IF n = 0 THEN "let g = use(|| { return x }, || { return x })"
            ELSE "let g = use(|| { x = x + 1 }, || { return x }) x = 100")
        \o " print(x) print(g()) }"

\* the lines it prints when every read returns the value written last
SharedForOut(n) == IF n = 0 THEN <<"5", "5">> ELSE <<"100", "100">>

\* the remaining operators, and a captured local whose block ends before its function
OtherSource(n) ==
    CASE n = 0 -> "let x = -5 print(x) print(7 % 3) print(1 == 1) print(1 != 2)"
      [] n = 1 -> "if true { let mut c = 1 let g = || { c = c + 1 return c } "
                      \o "print(g()) } print(5)"
      [] n = 2 -> "let mut f = 0 if true { let mut c = 1 "
                      \o "let g = || { c = c + 1 return c } print(g()) f = g } "
                      \o "print(f()) print(f())"

\* closures that capture several locals of a function out of register order,
\* while a block (n = 0) or a call (n = 1) above them opens and closes its own
UpvalueSource(n) ==
    CASE n = 0 -> "fn f() { let a = 1 let b = 2 let g = || { return a } "
                      \o "{ let c = 3 let h = || { return c + b } print(h()) } "
                      \o "let k = || { return b + a } return k } print(f()())"
      [] n = 1 -> "fn f() { let a = 1 let g = || { let z = 4 let w = || { return z } "
                      \o "return w } let r = || { return a } let w = g() "
                      \o "return w() + r() } print(f())"

\* a call of a() that leaves values in the registers of its locals, then a call of
\* b that passes none of b's n parameters; b returns the last of them
StaleSource(n) ==
    "fn a() {" \o Repeat(" let v = 7", ClearedWindow + 4) \o " return 0 } fn b(p"
        \o Repeat(", p", n - 1) \o ") { return p } a() print(b())"

\* the shapes of an argument: literal, identifier, binary operation, index
\* expression, nested call
ArgShapes == {"l", "i", "b", "n", "c"}

ArgText(c) ==
    CASE c = "l" -> "1" [] c = "i" -> "x" [] c = "b" -> "3 + 4" [] c = "n" -> "a[0]"
      [] c = "c" -> "id(5)"

\* the value of the argument where x is 2, a is [9] and id returns its argument
ArgValue(c) ==
    value_i32(CASE c = "l" -> 1 [] c = "i" -> 2 [] c = "b" -> 7 [] c = "n" -> 9
                [] c = "c" -> 5)

\* a call with two arguments of the shapes ops[1] and ops[2]
ArgsSource(ops) ==
    "let x = 2 let a = [9] fn id(v) { return v } fn two(p, q) { return 0 } two("
        \o ArgText(SubSeq(ops, 1, 1)) \o ", " \o ArgText(SubSeq(ops, 2, 2)) \o ")"

\* a function whose first local is a nested fn declaration, called at once (n = 0)
\* or after a let (n = 1)
NestedFnSource(n) ==
    "fn f() { fn g() { return 1 }" \o (IF n = 1 THEN " let y = 5" ELSE "")
        \o " return g() } print(f())"

\* a closure captures the local c = 1, control leaves the scope of c by the end of
\* its block (n = 0), by break (n = 1) or by return (n = 2), the register of c is
\* used for d = 7, and the closure is called
LeaveSource(n) ==
    CASE n = 0 -> "fn m() { let mut f = 0 { let c = 1 f = || { return c } } "
                      \o "let d = 7 print(f()) return 0 } m()"
      [] n = 1 -> "fn m() { let mut f = 0 loop { let c = 1 f = || { return c } break } "
                      \o "let d = 7 print(f()) return 0 } m()"
      [] n = 2 -> "fn m() { let c = 1 return || { return c } } let f = m() "
                      \o "let d = 7 print(f())"

\* an assignment to the binding x declared without mut: a local of a function,
\* a local assigned from a closure that captured it, a top-level binding
ImmutableSource(n) ==
    CASE n = 0 -> "fn f() { let x = 1 x = 2 return x } print(f())"
      [] n = 1 -> "fn f() { let x = 1 let g = || { x = 2 } g() return x } print(f())"
      [] n = 2 -> "let x = 1 x = 2 print(x)"

\* the program of the README's embedding example (n = 0), and the same two
\* statements with no separator between them
SemicolonSource(n) == IF n = 0 THEN "let x = 10; print(x)" ELSE "let x = 10 print(x)"

\* one arithmetic operation on two literals, the sign of its result changed
\* after; n says which of the operands are floats
ArithOps == {"+", "-", "*", "/"}

ArithSource(n, op) ==
    "let x = " \o (IF n \in {2, 3} THEN "7.5" ELSE "7") \o " " \o op \o " "
        \o (IF n \in {1, 3} THEN "2.5" ELSE "2") \o " let y = -x print(x) print(y)"

\* a name that is neither a global nor a native, read before anything else
\* is printed (n = 0), and the name of a native read before and after a
\* value is stored under it (n = 1)
GlobalSource(n) ==
    IF n = 0 THEN "let a = nope print(a) print(1)"
    ELSE "print(len([1, 2])) let len = 7 print(len)"

\* two lets without their variable names: the second starts with a
\* synchronizing keyword (n = 0), or a semicolon ends the first (n = 1)
TwoErrorSource(n) == IF n = 0 THEN "let = 5 let = 6" ELSE "let = 5; let = 6"

\* a braced block whose first token can start neither a statement nor an
\* expression
StuckSource(n) ==
    "if true { " \o (CASE n = 0 -> ")" [] n = 1 -> "in" [] n = 2 -> ";") \o " print(1) }"

\* identifiers that begin with the letters of a keyword and go on
KeywordPrefixed == {"inc", "index", "ifx", "fnord"}

IdentSource(name) == "let " \o name \o " = 1 print(" \o name \o ")"

\* the six comparisons of two numeric literals, integers and floats mixed
CmpOperands == <<"1", "1.0", "2", "1.5">>

CmpSource(n, m) ==
    LET a == CmpOperands[n]
        b == CmpOperands[m]
    IN "print(" \o a \o " == " \o b \o ") print(" \o a \o " != " \o b \o ") print("
           \o a \o " <= " \o b \o ") print(" \o a \o " >= " \o b \o ") print("
           \o a \o " < " \o b \o ") print(" \o a \o " > " \o b \o ")"

\* n programs compiled one after the other, none of them run
Compiles(n) == [i \in 1..n |-> Compile("let x = 1")]

\* a function with three locals that calls itself n levels deep
DeepSource(n) ==
    "fn f(n) { let a = 1 let b = 2 let c = 3 if n > 0 { f(n - 1) } return 0 } f("
        \o IntText(n) \o ") print(1)"

\* depths of recursion below MAX_FRAMES
Depths == {3, 40, 60}

Script(id, calls) == [id |-> id, calls |-> calls]

ClosureScripts ==
    {Script(Id("counter", n, 0, ""), RunFile(CounterSource(n))) : n \in 1..MaxCalls}
        \cup {Script(Id("scenario4", 0, 0, ""), RunFile(Scenario4Source))}
        \cup {Script(Id("shared", 0, 0, x \o "|" \o y), RunFile(SharedSource(x \o "|" \o y))) :
                 x \in SharedOpen, y \in SharedClosed}
        \cup {Script(Id("sharedfor", n, 0, ""), RunFile(SharedForSource(n))) : n \in 0..1}
        \cup {Script(Id("upvalue", n, 0, ""), RunFile(UpvalueSource(n))) : n \in 0..1}
        \cup {Script(Id("args", 0, 0, x \o y), RunFile(ArgsSource(x \o y))) :
                 x \in ArgShapes, y \in ArgShapes}
        \cup {Script(Id("nestedfn", n, 0, ""), RunFile(NestedFnSource(n))) : n \in 0..1}
        \cup {Script(Id("leave", n, 0, ""), RunFile(LeaveSource(n))) : n \in 0..2}
        \cup {Script(Id("stale", n, 0, ""), RunFile(StaleSource(n))) :
                 n \in {ClearedWindow - 1, ClearedWindow + 1}}

LoopScripts ==
    {Script(Id("forsum", n, 0, ""), RunFile(ForSumSource(n))) : n \in 0..MaxLen}
        \cup {Script(Id("forbreak", n, 0, ""), RunFile(ForBreakSource(n))) : n \in 0..MaxLen}
        \cup {Script(Id("loop", n, 0, ""), RunFile(LoopSource(n))) : n \in 0..MaxIter}
        \cup {Script(Id("while", n, 0, ""), RunFile(WhileSource(n))) : n \in 0..MaxIter}
        \cup {Script(Id("nested", n, 0, ""), RunFile(NestedSource(n))) : n \in 0..MaxIter}

ExprScripts ==
    {Script(Id("expr", shape, ExprValue(shape, a \o b \o c), a \o b \o c),
            RunFile(ExprSource(shape, a \o b \o c))) :
         shape \in 1..4, a \in ExprOps, b \in ExprOps, c \in ExprOps}

\* hosts that do not follow run_file: a compile alone, two compiles before one
\* run, and the read-eval-print loop going on after a line has failed
HostScripts ==
    {Script(Id("bad", n, 0, ""), <<Compile(BadSource(n))>>) : n \in 0..7}
        \cup {Script(Id("two", 0, 0, ""),
                     Builtins \o <<Compile("print(1)"), Compile("print(2)"), Run>>)}
        \cup {Script(Id("compiles", n, 0, ""), Compiles(n)) :
                 n \in {MAX_FRAMES, MAX_FRAMES + 1}}
        \cup {Script(Id("resume", 0, 0, ""),
                     Builtins \o <<Compile(NotFunctionSource(1)), Run,
                                   Compile("print(3)"), Run>>)}

DeepScripts ==
    {Script(Id("deep", n, 0, ""), RunFile(DeepSource(n))) : n \in Depths}

CallScripts ==
    {Script(Id("notfn", n, 0, ""), RunFile(NotFunctionSource(n))) : n \in 0..2}
        \cup {Script(Id("recurse", 0, 0, ""), RunFile(RecurseSource))}
        \cup DeepScripts

ArrayScripts ==
    {Script(Id("aget", n, m, ""), RunFile(ArrayGetSource(n, m))) :
         n \in 0..MaxLen, m \in -1..MaxLen}
        \cup {Script(Id("aset", n, m, ""), RunFile(ArraySetSource(n, m))) :
                 n \in 0..MaxLen, m \in -1..MaxLen}
        \cup {Script(Id("abad", n, 0, ""), RunFile(BadArraySource(n))) : n \in 0..3}
        \cup {Script(Id("alias", n, 0, ""), RunFile(AliasSource(n))) : n \in 0..2}

OtherScripts ==
    {Script(Id("other", n, 0, ""), RunFile(OtherSource(n))) : n \in 0..2}
        \cup {Script(Id("immut", n, 0, ""), RunFile(ImmutableSource(n))) : n \in 0..2}
        \cup {Script(Id("semi", n, 0, ""), RunFile(SemicolonSource(n))) : n \in 0..1}
        \cup {Script(Id("global", n, 0, ""), RunFile(GlobalSource(n))) : n \in 0..1}
        \cup {Script(Id("twoerr", n, 0, ""), RunFile(TwoErrorSource(n))) : n \in 0..1}
        \cup {Script(Id("stuck", n, 0, ""), RunFile(StuckSource(n))) : n \in 0..2}
        \cup {Script(Id("ident", 0, 0, name), RunFile(IdentSource(name))) :
                 name \in KeywordPrefixed}
        \cup {Script(Id("cmp", n, m, ""), RunFile(CmpSource(n, m))) :
                 n \in 1..Len(CmpOperands), m \in 1..Len(CmpOperands)}
        \cup {Script(Id("arith", n, 0, op), RunFile(ArithSource(n, op))) :
                 n \in 0..3, op \in ArithOps}

Scripts ==
    ClosureScripts \cup LoopScripts \cup ExprScripts \cup HostScripts
        \cup CallScripts \cup ArrayScripts \cup OtherScripts

(***************************************************************************)
(* string.c: the intern table, and the calls of vm.c that go through it.   *)
(* The table is one static array of the process, so the two VMs share it;  *)
(* nothing locks it, so the calls of the two threads interleave between    *)
(* every read and write of the table and of a refcount.                    *)
(***************************************************************************)

INTERN_TABLE_SIZE == 256

MaxHostCalls == 3   \* calls the two threads make on their VMs, taken together
MaxAloneCalls == 4  \* calls the first thread makes while the second has made none
MaxStrings == 3     \* String objects malloc hands out at distinct addresses

Instances == {1, 2}

Names == {"a", "b"}

\* the names each VM has a native registered under (mica_register_native
\* keeps a strdup of the name, find_native compares with strcmp)
NativeNames == {"b"}

\* (uint8_t)str[i]
Byte(c) == CASE c = "a" -> 97 [] c = "b" -> 98

RECURSIVE Xor(_, _)
Xor(a, b) ==
    IF a = 0 /\ b = 0 THEN 0 ELSE ((a + b) % 2) + 2 * Xor(a \div 2, b \div 2)

\* hash ^= byte; hash *= 16777619 on a uint32_t kept as two 16-bit halves:
\* 16777619 is 256 * 65536 + 403
FnvStep(hash, byte) ==
    LET lo == hash.lo - (hash.lo % 256) + Xor(hash.lo % 256, byte) IN
    [hi |-> (hash.hi * 403 + lo * 256 + ((lo * 403) \div 65536)) % 65536,
     lo |-> (lo * 403) % 65536]

RECURSIVE HashFrom(_, _, _)
HashFrom(hash, chars, i) ==
    IF i > Len(chars) THEN hash
    ELSE HashFrom(FnvStep(hash, Byte(SubSeq(chars, i, i))), chars, i + 1)

\* FNV-1a from the offset basis 2166136261 = 33052 * 65536 + 40389
hash_string(chars) == HashFrom([hi |-> 33052, lo |-> 40389], chars, 1)

string_new(chars) ==
    [refcount |-> 1, length |-> Len(chars), hash |-> hash_string(chars), data |-> chars,
     freed |-> FALSE, intact |-> TRUE]

FreedStrings == {s \in 1..Len(strings) : strings[s].freed}

\* the loop of string_intern from slot `index`: [s, index], s the String found
\* or 0 with index the empty slot the loop stopped at.  A freed String that is
\* still in the table is read after free(): it compares as it did when it was
\* live if free() left its memory intact, and equal to nothing if not.
RECURSIVE Probe(_, _)
Probe(chars, index) ==
    LET s == intern_table[index] IN
    IF s = 0 THEN [s |-> 0, index |-> index]
    ELSE IF /\ strings[s].intact
            /\ strings[s].hash = hash_string(chars)
            /\ strings[s].length = Len(chars)
            /\ strings[s].data = chars
    THEN [s |-> s, index |-> index]
    ELSE Probe(chars, (index + 1) % INTERN_TABLE_SIZE)

\* the addresses malloc can return for a new String: one never used before,
\* or that of a String freed earlier
NewStrings ==
    FreedStrings \cup (IF Len(strings) < MaxStrings THEN {Len(strings) + 1} ELSE {})

\* find_global(vm, name) on the globals gs: the index of the entry, 0 for NULL
FindGlobal(gs, name) ==
    IF \E i \in 1..Len(gs) : gs[i].name = name
    THEN CHOOSE i \in 1..Len(gs) :
             gs[i].name = name /\ \A j \in 1..(i - 1) : gs[j].name # name
    ELSE 0

Thread(t) == threads[t]

Idle(t) ==
    /\ process = "running"
    /\ Thread(t).pc = "idle"
    /\ \/ Thread(1).calls + Thread(2).calls < MaxHostCalls
       \/ t = 1 /\ Thread(2).calls = 0 /\ Thread(1).calls < MaxAloneCalls

At(t, where) == process = "running" /\ Thread(t).pc = where

\* the thread enters a call that starts with string_intern(chars)
EnterIntern(t, op, chars) ==
    /\ threads' = [threads EXCEPT ![t].pc = "intern", ![t].op = op, ![t].chars = chars,
                                  ![t].calls = @ + 1]
    /\ UNCHANGED <<strings, intern_table, instances, process, stored, writers, vmvars, unitvars>>

\* mica_set_global(vm, name, value_i32(1)) is called
CallSetGlobal(t) == Idle(t) /\ \E name \in Names : EnterIntern(t, "set", name)

\* mica_get_global(vm, name) is called
CallGetGlobal(t) == Idle(t) /\ \E name \in Names : EnterIntern(t, "get", name)

\* the program  let name = 2  is compiled: compile_let makes the constant
\* value_string(name), which the FunctionProto keeps, and OP_STORE_GLOBAL
\* runs after
CallStoreGlobal(t) == Idle(t) /\ \E name \in Names : EnterIntern(t, "store", name)

\* the program  name  is compiled: compile_ident makes the constant
\* value_string(name), which the FunctionProto keeps, and OP_LOAD_GLOBAL
\* runs after
CallLoadGlobal(t) == Idle(t) /\ \E name \in Names : EnterIntern(t, "load", name)

\* string_intern(name) is called by the host, which keeps the handle
CallStringIntern(t) == Idle(t) /\ \E name \in Names : EnterIntern(t, "intern", name)

\* string_release is called on a handle the host got from string_intern
CallStringRelease(t) ==
    /\ Idle(t)
    /\ \E i \in 1..Len(Thread(t).held) :
         threads' = [threads EXCEPT
                        ![t].pc = "release", ![t].op = "release",
                        ![t].chars = Thread(t).held[i].chars,
                        ![t].name_str = Thread(t).held[i].s,
                        ![t].held = SubSeq(@, 1, i - 1) \o SubSeq(@, i + 1, Len(@)),
                        ![t].calls = @ + 1]
    /\ UNCHANGED <<strings, intern_table, instances, process, stored, writers, vmvars, unitvars>>

\* mica_free(vm) is called
CallMicaFree(t) ==
    /\ Idle(t)
    /\ threads' = [threads EXCEPT ![t].pc = "free", ![t].op = "free", ![t].calls = @ + 1]
    /\ UNCHANGED <<strings, intern_table, instances, process, stored, writers, vmvars, unitvars>>

\* where a call goes on once string_intern has returned
AfterIntern(op) ==
    CASE op = "set" -> "set_find"
      [] op = "get" -> "get_find"
      [] op = "store" -> "store"
      [] op = "load" -> "load"
      [] op = "intern" -> "idle"

\* what the host holds once string_intern has returned s
HeldAfterIntern(t, s) ==
    IF Thread(t).op = "intern" THEN Append(Thread(t).held, [s |-> s, chars |-> Thread(t).chars])
    ELSE Thread(t).held

\* string_intern: the probe loop, up to the read of s->refcount or to the
\* empty slot
StringInternProbe(t) ==
    /\ At(t, "intern")
    /\ LET p == Probe(Thread(t).chars, hash_string(Thread(t).chars).lo % INTERN_TABLE_SIZE)
       IN threads' = [threads EXCEPT
                         ![t].pc = IF p.s # 0 THEN "intern_retain" ELSE "intern_new",
                         ![t].name_str = p.s,
                         ![t].index = p.index,
                         ![t].tmp = IF p.s # 0 THEN strings[p.s].refcount ELSE 0]
    /\ UNCHANGED <<strings, intern_table, instances, process, stored, writers, vmvars, unitvars>>

\* string_intern: the write of s->refcount++ and the return of s; a write to a
\* String that has been freed changes nothing a later call relies on
StringInternRetain(t) ==
    /\ At(t, "intern_retain")
    /\ LET s == Thread(t).name_str IN
       /\ strings' = IF strings[s].freed THEN strings
                     ELSE [strings EXCEPT ![s].refcount = Thread(t).tmp + 1]
       /\ writers' = [writers EXCEPT ![s] = @ \cup {t}]
       /\ threads' = [threads EXCEPT ![t].pc = AfterIntern(Thread(t).op),
                                     ![t].held = HeldAfterIntern(t, s)]
    /\ UNCHANGED <<intern_table, instances, process, stored, vmvars, unitvars>>

\* string_intern: string_new and the store into the empty slot
StringInternNew(t) ==
    /\ At(t, "intern_new")
    /\ \E s \in NewStrings :
         /\ strings' = IF s > Len(strings) THEN Append(strings, string_new(Thread(t).chars))
                       ELSE [strings EXCEPT ![s] = string_new(Thread(t).chars)]
         /\ writers' = IF s > Len(strings) THEN Append(writers, {})
                       ELSE [writers EXCEPT ![s] = {}]
         /\ intern_table' = [intern_table EXCEPT ![Thread(t).index] = s]
         /\ threads' = [threads EXCEPT ![t].pc = AfterIntern(Thread(t).op),
                                       ![t].name_str = s,
                                       ![t].held = HeldAfterIntern(t, s)]
    /\ UNCHANGED <<instances, process, stored, vmvars, unitvars>>

\* mica_set_global after string_intern: the entry found is overwritten and the
\* handle released, or a new entry takes the handle
SetGlobalFind(t) ==
    /\ At(t, "set_find")
    /\ LET g == FindGlobal(instances[t].globals, Thread(t).name_str) IN
       /\ instances' = [instances EXCEPT ![t].globals =
                           IF g # 0 THEN [@ EXCEPT ![g].value = value_i32(1)]
                           ELSE Append(@, [name |-> Thread(t).name_str,
                                           value |-> value_i32(1)])]
       /\ threads' = [threads EXCEPT
                         ![t].pc = IF g # 0 THEN "release" ELSE "idle",
                         ![t].last = [op |-> "set", chars |-> Thread(t).chars,
                                      value |-> value_i32(1), expected |-> value_i32(1)]]
    /\ stored' = [stored EXCEPT ![t][Thread(t).chars] = value_i32(1)]
    /\ UNCHANGED <<strings, intern_table, process, writers, vmvars, unitvars>>

\* mica_get_global after string_intern: find_global decides what is returned
\* once the handle is released
GetGlobalFind(t) ==
    /\ At(t, "get_find")
    /\ LET g == FindGlobal(instances[t].globals, Thread(t).name_str) IN
       threads' = [threads EXCEPT
                      ![t].pc = "release",
                      ![t].last = [op |-> "get", chars |-> Thread(t).chars,
                                   value |-> IF g # 0 THEN instances[t].globals[g].value
                                             ELSE value_none,
                                   expected |-> stored[t][Thread(t).chars]]]
    /\ UNCHANGED <<strings, intern_table, instances, process, stored, writers, vmvars, unitvars>>

\* OP_STORE_GLOBAL of value_i32(2) with the constant the compiler interned:
\* the entry found is overwritten, else name->refcount is read for the ++
StoreGlobalFind(t) ==
    /\ At(t, "store")
    /\ LET g == FindGlobal(instances[t].globals, Thread(t).name_str) IN
       IF g # 0
       THEN /\ instances' = [instances EXCEPT ![t].globals[g].value = value_i32(2)]
            /\ stored' = [stored EXCEPT ![t][Thread(t).chars] = value_i32(2)]
            /\ threads' = [threads EXCEPT
                              ![t].pc = "idle",
                              ![t].last = [op |-> "store", chars |-> Thread(t).chars,
                                           value |-> value_i32(2),
                                           expected |-> value_i32(2)]]
       ELSE /\ threads' = [threads EXCEPT
                              ![t].pc = "store_retain",
                              ![t].tmp = strings[Thread(t).name_str].refcount]
            /\ UNCHANGED <<instances, stored>>
    /\ UNCHANGED <<strings, intern_table, process, writers, vmvars, unitvars>>

\* OP_STORE_GLOBAL: the write of name->refcount++ and the new entry
StoreGlobalRetain(t) ==
    /\ At(t, "store_retain")
    /\ LET s == Thread(t).name_str IN
       /\ strings' = IF strings[s].freed THEN strings
                     ELSE [strings EXCEPT ![s].refcount = Thread(t).tmp + 1]
       /\ writers' = [writers EXCEPT ![s] = @ \cup {t}]
       /\ instances' = [instances EXCEPT ![t].globals =
                           Append(@, [name |-> s, value |-> value_i32(2)])]
    /\ stored' = [stored EXCEPT ![t][Thread(t).chars] = value_i32(2)]
    /\ threads' = [threads EXCEPT
                      ![t].pc = "idle",
                      ![t].last = [op |-> "store", chars |-> Thread(t).chars,
                                   value |-> value_i32(2), expected |-> value_i32(2)]]
    /\ UNCHANGED <<intern_table, process, vmvars, unitvars>>

\* OP_LOAD_GLOBAL with the constant the compiler interned: the value of the
\* entry find_global finds by the name's address, else the native find_native
\* finds by the name's characters, else none
LoadGlobalFind(t) ==
    /\ At(t, "load")
    /\ LET g == FindGlobal(instances[t].globals, Thread(t).name_str)
           chars == Thread(t).chars
       IN threads' = [threads EXCEPT
                         ![t].pc = "idle",
                         ![t].last = [op |-> "load", chars |-> chars,
                                      value |-> IF g # 0 THEN instances[t].globals[g].value
                                                ELSE IF chars \in NativeNames
                                                THEN value_native(builtin_len)
                                                ELSE value_none,
                                      expected |-> IF stored[t][chars] # value_none
                                                   THEN stored[t][chars]
                                                   ELSE IF chars \in NativeNames
                                                   THEN value_native(builtin_len)
                                                   ELSE value_none]]
    /\ UNCHANGED <<strings, intern_table, instances, process, stored, writers, vmvars, unitvars>>

\* string_release: the read of str->refcount
StringReleaseLoad(t) ==
    /\ At(t, "release")
    /\ threads' = [threads EXCEPT ![t].pc = "release_store",
                                  ![t].tmp = strings[Thread(t).name_str].refcount]
    /\ UNCHANGED <<strings, intern_table, instances, process, stored, writers, vmvars, unitvars>>

\* string_release: the write of --str->refcount and free(str) at 0; free()
\* leaves the memory of the String as it is or overwrites it.  On a String
\* freed before, the count read is whatever the freed memory holds: either
\* free() is reached a second time and aborts, or nothing comes of it.
StringReleaseStore(t) ==
    /\ At(t, "release_store")
    /\ LET s == Thread(t).name_str IN
       /\ IF strings[s].freed
          THEN /\ \E double_free \in BOOLEAN :
                    process' = IF double_free THEN "aborted" ELSE process
               /\ UNCHANGED strings
          ELSE /\ IF Thread(t).tmp - 1 = 0
                  THEN \E intact \in BOOLEAN :
                           strings' = [strings EXCEPT ![s].refcount = 0, ![s].freed = TRUE,
                                                      ![s].intact = intact]
                  ELSE strings' = [strings EXCEPT ![s].refcount = Thread(t).tmp - 1]
               /\ UNCHANGED process
       /\ writers' = [writers EXCEPT ![s] = @ \cup {t}]
    /\ threads' = [threads EXCEPT ![t].pc = IF Thread(t).op = "free" THEN "free" ELSE "idle"]
    /\ UNCHANGED <<intern_table, instances, stored, vmvars, unitvars>>

\* mica_free: string_release of the name of the next global, and free(vm)
\* after the last
MicaFreeNext(t) ==
    /\ At(t, "free")
    /\ IF instances[t].globals = <<>>
       THEN /\ threads' = [threads EXCEPT ![t].pc = "freed"]
            /\ UNCHANGED instances
       ELSE /\ threads' = [threads EXCEPT ![t].pc = "release",
                                          ![t].name_str = Head(instances[t].globals).name]
            /\ instances' = [instances EXCEPT ![t].globals = Tail(@)]
    /\ UNCHANGED <<strings, intern_table, process, stored, writers, vmvars, unitvars>>

\* the process after two mica_new calls, before any string is interned
InternInit ==
    /\ strings = <<>>
    /\ intern_table = [i \in 0..(INTERN_TABLE_SIZE - 1) |-> 0]
    /\ instances = [t \in Instances |-> [globals |-> <<>>]]
    /\ threads = [t \in Instances |->
                     [pc |-> "idle", op |-> "new", chars |-> "", name_str |-> 0, tmp |-> 0,
                      index |-> 0, held |-> <<>>, calls |-> 0,
                      last |-> [op |-> "new", chars |-> "", value |-> value_none,
                                expected |-> value_none]]]
    /\ process = "running"
    /\ stored = [t \in Instances |-> [name \in Names |-> value_none]]
    /\ writers = <<>>

InternNext ==
    \/ \E t \in Instances : CallSetGlobal(t)
    \/ \E t \in Instances : CallGetGlobal(t)
    \/ \E t \in Instances : CallStoreGlobal(t)
    \/ \E t \in Instances : CallLoadGlobal(t)
    \/ \E t \in Instances : CallStringIntern(t)
    \/ \E t \in Instances : CallStringRelease(t)
    \/ \E t \in Instances : CallMicaFree(t)
    \/ \E t \in Instances : StringInternProbe(t)
    \/ \E t \in Instances : StringInternRetain(t)
    \/ \E t \in Instances : StringInternNew(t)
    \/ \E t \in Instances : SetGlobalFind(t)
    \/ \E t \in Instances : GetGlobalFind(t)
    \/ \E t \in Instances : StoreGlobalFind(t)
    \/ \E t \in Instances : LoadGlobalFind(t)
    \/ \E t \in Instances : StoreGlobalRetain(t)
    \/ \E t \in Instances : StringReleaseLoad(t)
    \/ \E t \in Instances : StringReleaseStore(t)
    \/ \E t \in Instances : MicaFreeNext(t)

(***************************************************************************)
(* A jump from the address `site` of its two offset bytes to the address   *)
(* `target`, both in one function: the compiler computes and stores the    *)
(* offset, the VM reads it and moves ip.                                   *)
(***************************************************************************)

MaxCode == 65540    \* code addresses are 0 .. MaxCode

\* where the offset bytes are: next to the start of the code, and far enough
\* into it for the longest jump back
JumpSites == {1, MaxCode \div 2}

\* no jump under way
NoJump == [site |-> 0, target |-> 0, bytes |-> <<>>, ip |-> 0, stage |-> "none"]

\* a jump forward goes to an instruction after its own (if, else, the exit of
\* while and for, break), a jump back to loop_start at or before its opcode
JumpInit ==
    \E site \in JumpSites : \E target \in 0..MaxCode :
        /\ target >= site + 2 \/ target < site
        /\ target - (site + 2) \in (-INT16_MAX)..INT16_MAX
        /\ jump = [site |-> site, target |-> target, bytes |-> <<0, 0>>, ip |-> 0,
                   stage |-> "emitted"]

\* compile_if, compile_while, compile_for, end_loop: the placeholder at `site`
\* is patched when code_count has reached the target
PatchForwardJump ==
    /\ jump.stage = "emitted"
    /\ jump.target >= jump.site + 2
    /\ LET count == jump.target    \* c->function->code_count
       IN jump' = [jump EXCEPT !.bytes = EncodeShort(count - jump.site - 2),
                               !.stage = "patched"]
    /\ UNCHANGED <<vmvars, internvars, build, names, walk>>

\* compile_while, compile_for, compile_loop: the offset is emitted right after
\* emit_op(c, OP_JMP), when code_count is the address of the offset bytes
EmitBackwardJump ==
    /\ jump.stage = "emitted"
    /\ jump.target < jump.site
    /\ LET count == jump.site      \* c->function->code_count
           loop_start == jump.target
       IN jump' = [jump EXCEPT
                      !.bytes = EncodeShort(-Int16(count - loop_start + 2)),
                      !.stage = "patched"]
    /\ UNCHANGED <<vmvars, internvars, build, names, walk>>

\* OP_JMP, and OP_JMP_IF_NOT on a falsy register: READ_SHORT() moves ip past
\* the two bytes, then frame->ip += offset
ExecuteJump ==
    /\ jump.stage = "patched"
    /\ jump' = [jump EXCEPT
                   !.ip = jump.site + 2 + DecodeShort(jump.bytes[1], jump.bytes[2]),
                   !.stage = "executed"]
    /\ UNCHANGED <<vmvars, internvars, build, names, walk>>

JumpNext == PatchForwardJump \/ EmitBackwardJump \/ ExecuteJump

(***************************************************************************)
(* A block with as many locals as a Compiler holds, and a closure that     *)
(* captures them all, compiled one statement at a time and then run        *)
(***************************************************************************)

MaxLocals == 256        \* Local locals[256], and upvalue_count >= 256 in add_upvalue

BuildSizes == {1, 2, MaxLocals, MaxLocals + 1}

\* nothing under construction
NoBuild == [kind |-> "none", n |-> 0, phase |-> "none", i |-> 0, K |-> <<>>]

LocalName(i) == "v" \o NatText(i)

\* what the i-th local is initialised with: v1 = 1, v2 = 2, every other = v2
LocalValue(i) == value_i32(IF i = 1 THEN 1 ELSE 2)

\* let v<i> = ...
LetStatement(i) ==
    [type |-> "AST_LET", name |-> LocalName(i), is_mut |-> FALSE,
     init |-> IF i <= 2 THEN [type |-> "AST_INT", int_val |-> i]
              ELSE [type |-> "AST_IDENT", str_val |-> LocalName(2)]]

\* the expression statement v<i>
IdentStatement(i) == [type |-> "AST_IDENT", str_val |-> LocalName(i)]

\* "locals":   { let v1 = 1  let v2 = 2  let v3 = v2 ... let vn = v2 }
\* "upvalues": { let v1 = 1 ... let vn = v2  || { v1 ... vn } }
\* compile() has made the Compiler of <main>, compile_block has begun the scope
BuildInit ==
    \E kind \in {"locals", "upvalues"} : \E n \in BuildSizes :
        /\ kind = "upvalues" => n <= MaxLocals
        /\ build = [kind |-> kind, n |-> n, phase |-> "block", i |-> 0,
                    K |-> begin_scope(<<compiler_init("<main>")>>)]

BuildUnchanged == UNCHANGED <<vmvars, internvars, jump, names, walk>>

\* compile_stmt of the next let of the block
CompileLet ==
    /\ build.phase = "block" /\ build.i < build.n
    /\ build' = [build EXCEPT !.K = compile_stmt(build.K, LetStatement(build.i + 1)),
                              !.i = @ + 1]
    /\ BuildUnchanged

\* compile_closure up to the first statement of its block body
BeginClosure ==
    /\ build.kind = "upvalues" /\ build.phase = "block" /\ build.i = build.n
    /\ build' = [build EXCEPT !.K = begin_scope(NestedCompiler(build.K, "", <<>>)),
                              !.phase = "closure", !.i = 0]
    /\ BuildUnchanged

\* compile_stmt of the next statement of the closure's body
CompileCapture ==
    /\ build.phase = "closure" /\ build.i < build.n
    /\ build' = [build EXCEPT !.K = compile_stmt(build.K, IdentStatement(build.i + 1)),
                              !.i = @ + 1]
    /\ BuildUnchanged

\* the end of the body's block, of compile_closure and of the expression
\* statement the closure is
EndClosure ==
    /\ build.phase = "closure" /\ build.i = build.n
    /\ build' = [build EXCEPT
                    !.K = CompileExprStmtEnd(CompileClosureEnd(CompileBlockEnd(build.K))),
                    !.phase = "tail"]
    /\ BuildUnchanged

\* the end of the block and of compile(), and what mica_compile does with the
\* function; the host calls mica_run next
LoadProgram ==
    /\ \/ build.phase = "tail"
       \/ build.kind = "locals" /\ build.phase = "block" /\ build.i = build.n
    /\ LET c == CompileEnd(CompileBlockEnd(build.K))
       IN /\ closures' = Append(closures, [refcount |-> 1, proto |-> c.function,
                                           upvalues |-> <<>>])
          /\ err' = err \o c.messages
          /\ frames' = Append(frames, [closure |-> Len(closures) + 1, ip |-> 0,
                                       base_register |-> 0, return_register |-> 0])
    /\ last' = [op |-> "compile", result |-> TRUE]
    /\ todo' = <<Run>>
    /\ build' = [build EXCEPT !.phase = "loaded", !.K = <<>>]
    /\ UNCHANGED <<registers, open_upvalues, upvalues, arrays, iterators, globals,
                   natives, out, pc, run_base, script, internvars, jump, names,
                   walk>>

\* a closure holds another number of upvalues than its function captures: the
\* bytes after its OP_CLOSURE are not the instructions the compiler meant, and
\* the run is not followed into them
Astray ==
    \E c \in 1..Len(closures) :
        Len(closures[c].upvalues) # Len(closures[c].proto.upvalue_descs)

BuildNext ==
    \/ CompileLet
    \/ BeginClosure
    \/ CompileCapture
    \/ EndClosure
    \/ LoadProgram
    \/ ~Astray /\ MicaRun
    \/ ~Astray /\ LoadConst
    \/ ~Astray /\ LoadLocal
    \/ ~Astray /\ StoreLocal
    \/ ~Astray /\ MakeClosure
    \/ ~Astray /\ CloseUpval
    \/ ~Astray /\ Ret

(***************************************************************************)
(* Name resolution on its own: a chain of Compilers brought about by the   *)
(* steps of compile_block, compile_let, compile_closure and compile_ident  *)
(***************************************************************************)

MaxNest == 3            \* Compilers in the chain: <main> and closures within closures
MaxScope == 2           \* blocks open in one function
MaxDeclared == 3        \* locals of one function
MaxSteps == 6           \* steps of the compile functions

Identifiers == {"x", "y"}

\* no chain under construction
NoNames == [K |-> <<>>, steps |-> 0, found |-> [kind |-> "none"], first |-> <<>>]

\* found is what the last compile_ident emitted; first[lvl][name] is the upvalue
\* index the function K[lvl] got when it first resolved name as an upvalue, -1
\* before that
Unresolved == [name \in Identifiers |-> -1]

NamesInit ==
    names = [K |-> <<compiler_init("<main>")>>, steps |-> 0,
             found |-> [kind |-> "none"], first |-> <<Unresolved>>]

NamesUnchanged == UNCHANGED <<vmvars, internvars, jump, build, walk>>

NamesStep(K) == [names EXCEPT !.K = K, !.steps = @ + 1, !.found = [kind |-> "none"]]

\* compile_block up to its first statement
NamesBeginScope ==
    /\ names.steps < MaxSteps
    /\ Cur(names.K).scope_depth < MaxScope
    /\ names' = NamesStep(begin_scope(names.K))
    /\ NamesUnchanged

\* the end of compile_block
NamesEndScope ==
    /\ names.steps < MaxSteps
    /\ Cur(names.K).scope_depth > (IF Len(names.K) = 1 THEN 0 ELSE 1)
    /\ names' = NamesStep(end_scope(names.K))
    /\ NamesUnchanged

\* declare_local, as compile_let calls it inside a block or a function
NamesDeclare ==
    /\ names.steps < MaxSteps
    /\ Cur(names.K).scope_depth > 0
    /\ Len(Cur(names.K).locals) < MaxDeclared
    /\ \E name \in Identifiers :
          names' = NamesStep(declare_local(names.K, name, FALSE))
    /\ NamesUnchanged

\* compile_closure up to the body, for a closure without parameters or with the
\* parameter x
NamesBeginFunction ==
    /\ names.steps < MaxSteps
    /\ Len(names.K) < MaxNest
    /\ \E params \in {<<>>, <<"x">>} :
          names' = [NamesStep(NestedCompiler(names.K, "", params))
                        EXCEPT !.first = Append(@, Unresolved)]
    /\ NamesUnchanged

\* the rest of compile_closure, and of the expression statement the closure is
NamesEndFunction ==
    /\ names.steps < MaxSteps
    /\ Len(names.K) > 1
    /\ Cur(names.K).scope_depth = 1
    /\ names' = [NamesStep(CompileExprStmtEnd(CompileClosureEnd(names.K)))
                    EXCEPT !.first = SubSeq(@, 1, Len(@) - 1)]
    /\ NamesUnchanged

\* the instruction compile_ident has emitted last: its opcode and first operand
LastLoad(K) ==
    LET code == Cur(K).function.code
        op == code[Len(code) - 2]
    IN [kind |-> CASE op = OP_LOAD_LOCAL -> "local" [] op = OP_LOAD_UPVAL -> "upvalue"
                   [] op = OP_LOAD_GLOBAL -> "global",
        index |-> code[Len(code) - 1]]

\* compile_ident for the expression statement `name`
NamesResolve ==
    /\ names.steps < MaxSteps
    /\ \E name \in Identifiers :
          LET e == compile_ident(names.K, [type |-> "AST_IDENT", str_val |-> name])
              load == LastLoad(e.k)
          IN names' = [K |-> CompileExprStmtEnd(e),
                       steps |-> names.steps + 1,
                       found |-> [kind |-> load.kind, index |-> load.index,
                                  name |-> name, before |-> names.K],
                       first |-> IF load.kind = "upvalue"
                                    /\ names.first[Len(names.K)][name] = -1
                                 THEN [names.first EXCEPT ![Len(names.K)][name] = load.index]
                                 ELSE names.first]
    /\ NamesUnchanged

NamesNext ==
    \/ NamesBeginScope
    \/ NamesEndScope
    \/ NamesDeclare
    \/ NamesBeginFunction
    \/ NamesEndFunction
    \/ NamesResolve

(***************************************************************************)
(* iterator.c on its own: one Iterator, made by iter_new over an array or  *)
(* over a value of another kind, and the calls of iter_next and            *)
(* iter_has_next on it                                                     *)
(***************************************************************************)

MaxWalkCalls == 6       \* calls of iter_next and iter_has_next on the iterator

\* no iterator under test
NoWalk == [delivered |-> <<>>, has |-> <<>>, calls |-> 0]

\* the values the arrays hold
WalkElements == {value_i32(7), value_i32(8)}

RECURSIVE WalkData(_)
WalkData(n) ==
    IF n = 0 THEN {<<>>}
    ELSE {Append(d, e) : d \in WalkData(n - 1), e \in WalkElements}

RECURSIVE PushAll(_, _)
PushAll(arr, data) ==
    IF data = <<>> THEN arr ELSE PushAll(array_push(arr, Head(data)), Tail(data))

\* the Array that array_new and array_push make of the elements
WalkArray(data) == PushAll(array_new(0), data)

\* values that are not arrays
WalkOthers == {value_i32(5), value_bool(TRUE), value_none, value_string("ab")}

\* delivered lists the Values iter_next has returned; has lists, for each call
\* of iter_has_next, how many Values had been delivered and the answer
WalkStart == [delivered |-> <<>>, has |-> <<>>, calls |-> 0]

WalkUnchanged ==
    UNCHANGED <<registers, frames, open_upvalues, upvalues, closures, arrays, globals,
                natives, out, err, pc, todo, last, run_base, script, internvars, jump,
                build, names>>

\* iter_next(iter)
WalkNext ==
    /\ walk.calls < MaxWalkCalls
    /\ walk' = [walk EXCEPT !.delivered = Append(@, iter_next(iterators[1])),
                            !.calls = @ + 1]
    /\ iterators' = IF iter_has_next(iterators[1])
                    THEN [iterators EXCEPT ![1].index = @ + 1]
                    ELSE iterators
    /\ WalkUnchanged

\* iter_has_next(iter)
WalkHasNext ==
    /\ walk.calls < MaxWalkCalls
    /\ walk' = [walk EXCEPT !.has = Append(@, [after |-> Len(walk.delivered),
                                               answer |-> iter_has_next(iterators[1])]),
                            !.calls = @ + 1]
    /\ UNCHANGED iterators
    /\ WalkUnchanged

\* the state mica_new returns, before the host's first call
Init ==
    /\ registers = [i \in 0..(MAX_REGISTERS - 1) |-> value_none]
    /\ frames = <<>>
    /\ open_upvalues = <<>>
    /\ upvalues = <<>>
    /\ closures = <<>>
    /\ arrays = <<>>
    /\ iterators = <<>>
    /\ globals = <<>>
    /\ natives = <<>>
    /\ out = <<>>
    /\ err = <<>>
    /\ pc = "host"
    /\ \E s \in Scripts : script = s.id /\ todo = s.calls
    /\ last = [op |-> "new", result |-> TRUE]
    /\ run_base = 0
    /\ InternInit
    /\ jump = NoJump
    /\ build = NoBuild
    /\ names = NoNames
    /\ walk = NoWalk

Next ==
    \/ MicaRegisterNative
    \/ MicaCompile
    \/ MicaRun
    \/ LoadConst
    \/ LoadLocal
    \/ StoreLocal
    \/ LoadGlobal
    \/ StoreGlobal
    \/ LoadUpval
    \/ StoreUpval
    \/ Arith
    \/ Mod
    \/ Neg
    \/ Equality
    \/ Compare
    \/ Jmp
    \/ JmpIfNot
    \/ Ret
    \/ Call
    \/ MakeClosure
    \/ CloseUpval
    \/ ArrayNew
    \/ ArrayGet
    \/ ArraySet
    \/ ArrayPush
    \/ IterNew
    \/ IterNext
    \/ IterHasNext
    \/ RegisterOverrun

Spec == Init /\ [][Next]_vars

\* the two VMs in a process whose main interpreter makes no call
InternSpecInit == Init /\ script = Id("semi", 1, 0, "")

InternSpec == InternSpecInit /\ [][InternNext]_vars

\* the VM of Init: [Init EXCEPT jump]
IdleVM ==
    /\ registers = [i \in 0..(MAX_REGISTERS - 1) |-> value_none]
    /\ frames = <<>> /\ open_upvalues = <<>> /\ upvalues = <<>> /\ closures = <<>>
    /\ arrays = <<>> /\ iterators = <<>> /\ globals = <<>> /\ natives = <<>>
    /\ out = <<>> /\ err = <<>> /\ pc = "host" /\ todo = <<>>
    /\ script = Id("none", 0, 0, "")
    /\ last = [op |-> "new", result |-> TRUE]
    /\ run_base = 0
    /\ InternInit

JumpSpecInit == IdleVM /\ JumpInit /\ build = NoBuild /\ names = NoNames /\ walk = NoWalk

JumpSpec == JumpSpecInit /\ [][JumpNext]_vars

BuildSpecInit == IdleVM /\ jump = NoJump /\ BuildInit /\ names = NoNames /\ walk = NoWalk

BuildSpec == BuildSpecInit /\ [][BuildNext]_vars

NamesSpecInit ==
    IdleVM /\ jump = NoJump /\ build = NoBuild /\ NamesInit /\ walk = NoWalk

NamesSpec == NamesSpecInit /\ [][NamesNext]_vars

\* the process after iter_new(iterable), the iterable an array of up to MaxLen
\* elements or a value of another kind
WalkInit ==
    /\ registers = [i \in 0..(MAX_REGISTERS - 1) |-> value_none]
    /\ frames = <<>> /\ open_upvalues = <<>> /\ upvalues = <<>> /\ closures = <<>>
    /\ globals = <<>> /\ natives = <<>>
    /\ out = <<>> /\ err = <<>> /\ pc = "host" /\ todo = <<>>
    /\ script = Id("none", 0, 0, "")
    /\ last = [op |-> "new", result |-> TRUE]
    /\ run_base = 0
    /\ InternInit
    /\ \/ \E n \in 0..MaxLen : \E data \in WalkData(n) :
              /\ arrays = <<WalkArray(data)>>
              /\ iterators = <<iter_new(value_array_ref(1))>>
       \/ \E val \in WalkOthers :
              /\ arrays = <<>>
              /\ iterators = <<iter_new(val)>>
    /\ walk = WalkStart

WalkSpecInit == WalkInit /\ jump = NoJump /\ build = NoBuild /\ names = NoNames

WalkNextStep == WalkNext \/ WalkHasNext

WalkSpec == WalkSpecInit /\ [][WalkNextStep]_vars

(***************************************************************************)
(* Properties                                                              *)
(***************************************************************************)

\* the host has made every call of its script and the last one has returned
Finished == pc = "host" /\ todo = <<>>

RunReturned(result) == Finished /\ last = [op |-> "run", result |-> result]

\* every line written so far is the line `lines` has in its place
PrintsPrefixOf(lines) ==
    Len(out) <= Len(lines) /\ \A i \in 1..Len(out) : out[i] = lines[i]

\* C1: two closures made in one activation over the same local share one
\* cell: whatever the order of the writes to the local and through either
\* closure, every read, of the local or through a closure, with the cell open
\* or closed, prints the value written last.
C1_SharedCellReadsLastWrite ==
    /\ script.kind = "shared" => PrintsPrefixOf(SharedOut(script.ops, 1, 0))
    /\ script.kind = "sharedfor" => PrintsPrefixOf(SharedForOut(script.n))

\* C2: the k-th call of the closure make() returned prints k, and the run of
\* a program that calls it n times returns true having printed 1 .. n.
C2_CounterCounts ==
    script.kind = "counter" =>
        /\ \A k \in 1..Len(out) : out[k] = IntText(k)
        /\ err = <<>>
        /\ Finished => Len(out) = script.n /\ RunReturned(TRUE)

C2_Witness ==
    script.kind = "counter" /\ RunReturned(TRUE) /\ out = <<"1", "2", "3">>

\* C3: the program of scenario 4 is parsed without an error, mica_compile
\* returns true for it, and its run returns true having printed 2.
C3_Scenario4Prints2 ==
    script.kind = "scenario4" =>
        /\ pc # "hung"
        /\ err = <<>>
        /\ last.op = "compile" => last.result
        /\ Finished => out = <<"2">> /\ RunReturned(TRUE)

\* C4: for x in a runs its body once for each of the n elements of a, in index
\* order: the program that sums [1 .. n] prints n(n+1)/2 and its run returns
\* true.
C4_ForSumsElements ==
    (script.kind = "forsum" /\ Finished) =>
        out = <<IntText((script.n * (script.n + 1)) \div 2)>> /\ RunReturned(TRUE)

\* C5: break continues at the first instruction after the innermost loop
\* around it: a counting loop or while left by break at i >= n never counts
\* past n and prints n, the break of an inner loop leaves the outer loop
\* running (it prints n, then the 2 rounds of the outer loop), and a for loop
\* left by break goes on to the statement after it.
C5_BreakLeavesInnermostLoop ==
    /\ script.kind \in {"loop", "while", "nested"} =>
          /\ mica_get_global("i").type = "i32" => mica_get_global("i").v <= script.n
          /\ mica_get_global("j").type = "i32" => mica_get_global("j").v <= 2
    /\ (script.kind \in {"loop", "while"} /\ Finished) =>
          out = <<IntText(script.n)>> /\ RunReturned(TRUE)
    /\ (script.kind = "nested" /\ Finished) =>
          out = <<IntText(script.n), "2">> /\ RunReturned(TRUE)
    /\ (script.kind = "forbreak" /\ Finished) =>
          out = <<"7">> /\ RunReturned(TRUE)

C5_Witness ==
    script.kind = "nested" /\ script.n = 2 /\ RunReturned(TRUE) /\ out = <<"2", "2">>

\* C6: after let x = E, for E built from integer literals with + - * and
\* parentheses, mica_get_global("x") is the integer arithmetic gives E.
C6_GlobalHoldsExpressionValue ==
    (script.kind = "expr" /\ Finished) =>
        RunReturned(TRUE) /\ mica_get_global("x") = value_i32(script.m)

\* C7: mica_compile returns true exactly when the lexer and the parser
\* reported no error, and a mica_compile that returned false pushed no frame,
\* whatever statement follows the erroneous one.
C7_CompileTrueIffNoError ==
    (script.kind = "bad" /\ last.op = "compile") =>
        /\ last.result <=> err = <<>>
        /\ ~last.result => frames = <<>>

\* C8: mica_run executes the frame that was topmost when it was called and
\* the frames pushed above it, and returns when that frame has returned: it
\* never runs with fewer frames than it started with.
C8_RunStaysAboveItsFrame ==
    pc = "running" => frame_count >= run_base

\* an OP_CALL is about to execute that cannot proceed
CallCannotProceed ==
    /\ pc = "running"
    /\ Code(0) = OP_CALL
    /\ \/ Reg(Code(1)).type \notin {"closure", "native"}
       \/ Reg(Code(1)).type = "closure" /\ frame_count >= MAX_FRAMES

RunReturnsFalse == pc' = "host" /\ last' = [op |-> "run", result |-> FALSE]

\* C9 as stated: a CALL that cannot proceed makes mica_run return false and
\* changes no register, upvalue or frame.
C9_FailedCallChangesNothing ==
    [][CallCannotProceed =>
          /\ RunReturnsFalse
          /\ UNCHANGED <<registers, upvalues, open_upvalues, frames>>]_vars

\* C9: a CALL that cannot proceed makes mica_run return false, pushes no
\* frame and changes no register or upvalue; of the frames it changes only the
\* ip of the executing one, which it leaves after the operands of the CALL.
C9_FailedCallOnlyAdvancesIp ==
    [][CallCannotProceed =>
          /\ RunReturnsFalse
          /\ UNCHANGED <<registers, upvalues, open_upvalues>>
          /\ frames' = Advance(4)]_vars

C9_Witness ==
    /\ script.kind = "recurse"
    /\ RunReturned(FALSE)
    /\ frame_count = MAX_FRAMES
    /\ err = <<"stack overflow">>

\* the elements [10, 20, ..., 10n] of the array literal of the array programs
ArrayElements(n) == [i \in 1..n |-> value_i32(10 * i)]

\* the array held by the global a
ArrayOfA == arrays[mica_get_global("a").v]

\* C10: reading or writing element i of an array of n elements succeeds
\* exactly when 0 <= i < n, a read then delivers the value stored last at i;
\* with any other index, an index that is no integer or an operand that is no
\* array, mica_run returns false and the array is as it was.
C10_ArrayIndexInBounds ==
    LET inside == 0 <= script.m /\ script.m < script.n IN
    /\ (script.kind = "aget" /\ Finished) =>
          /\ ArrayOfA.data = ArrayElements(script.n)
          /\ IF inside
             THEN out = <<IntText(10 * (script.m + 1))>> /\ RunReturned(TRUE)
             ELSE out = <<>> /\ RunReturned(FALSE)
    /\ (script.kind = "aset" /\ Finished) =>
          /\ ArrayOfA.length = script.n
          /\ IF inside
             THEN /\ ArrayOfA.data =
                        [ArrayElements(script.n) EXCEPT ![script.m + 1] = value_i32(99)]
                  /\ out = <<"99", IntText(script.n)>>
                  /\ RunReturned(TRUE)
             ELSE /\ ArrayOfA.data = ArrayElements(script.n)
                  /\ out = <<>>
                  /\ RunReturned(FALSE)
    /\ (script.kind = "abad" /\ Finished) =>
          /\ out = <<>>
          /\ RunReturned(FALSE)
          /\ script.n >= 2 => ArrayOfA.data = ArrayElements(2)

C10_Witness ==
    /\ script.kind = "aset" /\ script.n = 3 /\ script.m = 2
    /\ RunReturned(TRUE)
    /\ out = <<"99", "3">>

\* the Values held by the globals, by the elements of the arrays not yet freed
\* and by the upvalue cells that have been closed
RECURSIVE SeqRange(_, _)
SeqRange(s, i) == IF i > Len(s) THEN {} ELSE {s[i]} \cup SeqRange(s, i + 1)

HeldValues ==
    {globals[g].value : g \in 1..Len(globals)}
        \cup UNION {SeqRange(arrays[a].data, 1) :
                       a \in {x \in 1..Len(arrays) : ~arrays[x].freed}}
        \cup {upvalues[u].closed : u \in {x \in 1..Len(upvalues) : upvalues[x].is_closed}}

\* C11: no array is freed while a global, an element of a live array or a
\* closed upvalue cell still holds it: every store of a handle retains the
\* object stored and releases the one it replaces.
C11_NoHeldArrayIsFreed ==
    \A val \in HeldValues : val.type = "array" => ~arrays[val.v].freed

\* a step of OP_CLOSE_UPVAL or OP_RET, the two callers of close_upvalues
ClosingStep == Running({OP_CLOSE_UPVAL, OP_RET})

StaysOpen(id) == ~upvalues'[id].is_closed

CompilerAfter(stmts, i) ==
    CompileStmts(<<compiler_init("<main>")>>, SubSeq(stmts, 1, i), 1)

\* C13: after every statement of the program that mica_compile is about to
\* compile, register_count of the compiler equals its number of locals, which
\* is 0 at top level.
C13_RegistersBalancedAfterStatement ==
    NextCall("compile") =>
        \A junk \in JunkTypes :
            LET r == parse(Head(todo).source, junk) IN
            (~r.hang /\ r.ast.type # "NULL") =>
                \A i \in 1..Len(r.ast.stmts) :
                    /\ Cur(CompilerAfter(r.ast.stmts, i)).register_count
                           = Len(Cur(CompilerAfter(r.ast.stmts, i)).locals)
                    /\ Cur(CompilerAfter(r.ast.stmts, i)).register_count = 0

\* C14: a program that assigns to a binding declared without mut gets the
\* compile error for it, and the binding keeps the value of its declaration:
\* the programs of kind "immut" print 1 if they print at all.
C14_ImmutableBindingKeepsValue ==
    script.kind = "immut" =>
        /\ PrintsPrefixOf(<<"1">>)
        /\ (pc = "host" /\ last.op \in {"compile", "run"}) =>
               \E i \in 1..Len(err) : err[i] = "cannot assign to immutable variable: x"

\* C19: for let x = 10; print(x) mica_compile returns true, and the mica_run
\* that follows executes both statements, prints 10 and returns true.
C19_SemicolonSeparatesStatements ==
    script.kind = "semi" =>
        /\ (pc = "host" /\ last.op = "compile") => last.result = TRUE
        /\ Finished => (out = <<"10">> /\ RunReturned(TRUE))

NumericTags == {"i32", "f32"}

\* C20: the result of ADD, SUB, MUL, DIV on numeric operands is tagged
\* integer exactly when both operands are, and float when one of them is a
\* float; the result of NEG has the tag of its numeric operand.
C20_ArithmeticTags ==
    [][/\ (/\ Running({OP_ADD, OP_SUB, OP_MUL, OP_DIV})
           /\ Reg(Code(1)).type \in NumericTags
           /\ Reg(Code(2)).type \in NumericTags) =>
              registers'[frame.base_register + Code(3)].type =
                  IF Reg(Code(1)).type = "i32" /\ Reg(Code(2)).type = "i32"
                  THEN "i32" ELSE "f32"
       /\ (Running({OP_NEG}) /\ Reg(Code(1)).type \in NumericTags) =>
              registers'[frame.base_register + Code(2)].type = Reg(Code(1)).type]_vars

\* 7 / 2.5 has given the float 2.8 and its negation the float -2.8
C20_Witness ==
    /\ script.kind = "arith" /\ script.n = 1 /\ script.ops = "/"
    /\ Finished
    /\ mica_get_global("x") = value_f32(2800)
    /\ mica_get_global("y") = value_f32(-2800)
    /\ out = <<"2.8", "-2.8">>

\* the handles the hosts hold from string_intern, each with the bytes it was
\* asked for
HeldHandles == UNION {SeqRange(Thread(t).held, 1) : t \in Instances}

\* every call so far was made on the first VM, by its thread
OneThread == Thread(2).calls = 0

\* the host has called nothing but string_intern and string_release, on one
\* thread
OnlyStringCalls ==
    /\ OneThread
    /\ Thread(1).last.op = "new"
    /\ Thread(1).op \in {"new", "intern", "release"}

\* C15: after string_intern and string_release calls only, two handles that
\* string_intern returned and that are still held are the same String exactly
\* when they were asked for with the same bytes.
C15_InternIdentityIsEquality ==
    OnlyStringCalls =>
        \A x \in HeldHandles : \A y \in HeldHandles : (x.s = y.s) <=> (x.chars = y.chars)

\* C16: with the calls of one thread only and before mica_free, no String
\* that is an entry of the intern table has been freed.
C16_InternedStringsAreLive ==
    (OneThread /\ Thread(1).op # "free") =>
        \A i \in 0..(INTERN_TABLE_SIZE - 1) :
            intern_table[i] # 0 => ~strings[intern_table[i]].freed

\* C17: with the calls of one thread only, mica_get_global returns the value
\* stored last under the name by mica_set_global or OP_STORE_GLOBAL, none if
\* there was no store; and the VM has one entry for each name stored and no
\* other.
C17_GetGlobalReturnsLastStored ==
    OneThread =>
        /\ Thread(1).last.op = "get" => Thread(1).last.value = Thread(1).last.expected
        /\ Thread(1).op # "free" =>
               Len(instances[1].globals)
                   = Cardinality({name \in Names : stored[1][name] # value_none})

\* C18: no String has its refcount written by calls on both VMs.
C18_NoRefcountWrittenByBothInstances ==
    \A s \in 1..Len(writers) : Cardinality(writers[s]) <= 1

\* C21: a jump whose offset, target - (site + 2), is in -32767..32767 is
\* stored as the two bytes of that offset, high byte first, and executing it
\* leaves ip at the target.
C21_JumpReachesTarget ==
    /\ jump.stage \in {"patched", "executed"} =>
           /\ jump.bytes[1] \in 0..255 /\ jump.bytes[2] \in 0..255
           /\ DecodeShort(jump.bytes[1], jump.bytes[2]) = jump.target - (jump.site + 2)
    /\ jump.stage = "executed" => jump.ip = jump.target

\* the longest jump back has been executed
C21_Witness ==
    /\ jump.stage = "executed"
    /\ jump.target - (jump.site + 2) = -INT16_MAX
    /\ jump.bytes = <<128, 1>>
    /\ jump.ip = jump.target

\* C22: a closure that captures exactly 256 enclosing variables compiles without a
\* message and, once OP_CLOSURE has built it, holds 256 upvalues (n upvalues for the
\* closure that captures n variables).
C22_ClosureHoldsEveryUpvalue ==
    build.kind = "upvalues" /\ build.phase = "loaded" =>
        /\ err = <<>>
        /\ \A c \in 2..Len(closures) : Len(closures[c].upvalues) = build.n

\* C23: each of up to 256 locals of a function has its own register; the let of a
\* 257th reports "too many local variables" and leaves every declared local's
\* register as it was: register i - 1 holds nothing but the value of local i.
C23_LocalsKeepTheirSlots ==
    build.kind = "locals" /\ build.phase = "loaded" =>
        /\ err = IF build.n > MaxLocals THEN <<"too many local variables">> ELSE <<>>
        /\ \A i \in 1..build.n :
               i <= MaxLocals => registers[i - 1] \in {value_none, LocalValue(i)}

\* the open-upvalue list of the state: strictly descending by register, hence one
\* upvalue a register, and every upvalue in it open with its location a register
OpenListOrdered ==
    /\ \A i \in 1..Len(open_upvalues) :
          /\ open_upvalues[i] \in 1..Len(upvalues)
          /\ ~upvalues[open_upvalues[i]].is_closed
          /\ upvalues[open_upvalues[i]].location \in 0..(MAX_REGISTERS - 1)
    /\ \A i, j \in 1..Len(open_upvalues) :
          i < j => upvalues[open_upvalues[i]].location > upvalues[open_upvalues[j]].location

\* the upvalues of the state that are closed
ClosedUpvalues == {id \in 1..Len(upvalues) : upvalues[id].is_closed}

\* C24: in every state the open-upvalue list is strictly descending by register, holds
\* at most one upvalue for a register and only open upvalues; no step opens a closed
\* upvalue or puts it back in the list.
C24_OpenListSortedClosedForGood ==
    [][/\ OpenListOrdered /\ OpenListOrdered'
       /\ \A id \in ClosedUpvalues :
             /\ id \in ClosedUpvalues'
             /\ \A i \in 1..Len(open_upvalues') : open_upvalues'[i] # id]_vars

\* two upvalues are open, on different registers, after another has been closed
C24_Witness ==
    /\ Len(open_upvalues) >= 2 /\ ClosedUpvalues # {}
    /\ upvalues[open_upvalues[1]].location > upvalues[open_upvalues[2]].location

\* the first register the step closes upvalues from: that of OP_CLOSE_UPVAL's operand,
\* the frame's base for OP_RET
CloseFrom == frame.base_register + (IF Code(0) = OP_CLOSE_UPVAL THEN Code(1) ELSE 0)

\* the upvalues of the open list on registers at or above r
OpenFrom(r) ==
    {open_upvalues[i] : i \in {j \in 1..Len(open_upvalues) :
                                   upvalues[open_upvalues[j]].location >= r}}

\* C25: OP_CLOSE_UPVAL i, and OP_RET for the base of its frame, close every open upvalue
\* on a register at or above that one, each with the value of its register, and no
\* other: the open upvalues below stay in the list in their order, unchanged; no
\* register changes but the one OP_RET stores the result in.
C25_ClosesFromRegisterUp ==
    [][Running({OP_CLOSE_UPVAL, OP_RET}) =>
          /\ \A id \in OpenFrom(CloseFrom) :
                upvalues'[id] = [upvalues[id] EXCEPT
                                    !.is_closed = TRUE,
                                    !.closed = registers[upvalues[id].location]]
          /\ \A id \in 1..Len(upvalues) :
                id \notin OpenFrom(CloseFrom) => upvalues'[id] = upvalues[id]
          /\ Len(upvalues') = Len(upvalues)
          /\ open_upvalues' = SelectSeq(open_upvalues, LAMBDA id : id \notin OpenFrom(CloseFrom))
          /\ \A r \in 0..(MAX_REGISTERS - 1) :
                registers'[r] # registers[r] =>
                    /\ Code(0) = OP_RET /\ frame_count > 1
                    /\ r = frame.return_register]_vars

\* OP_CLOSE_UPVAL has just closed the upvalue of its register and left one open below
C25_Witness ==
    /\ pc = "running" /\ frame.ip >= 2
    /\ proto.code[frame.ip - 1] = OP_CLOSE_UPVAL
    /\ \E id \in ClosedUpvalues :
          upvalues[id].location = frame.base_register + proto.code[frame.ip]
    /\ open_upvalues # <<>>
    /\ \A i \in 1..Len(open_upvalues) :
          upvalues[open_upvalues[i]].location < frame.base_register + proto.code[frame.ip]

\* the frame beneath the running one, and the OP_CALL it has just read
caller == frames[Len(frames) - 1]

CallerCode(k) == closures[caller.closure].proto.code[caller.ip + k + 1]

\* the value OP_RET returns
RetResult == IF Code(1) > 0 THEN Reg(Code(2)) ELSE value_none

\* C26: OP_RET in a frame that is not the last leaves no open upvalue on a register at
\* or above the frame's base, pops exactly that frame, resumes the caller right after
\* its OP_CALL, whose destination register holds the result (none for RET 0), and
\* changes no other register below the callee's base.
C26_RetResumesCaller ==
    [][Running({OP_RET}) /\ frame_count > 1 =>
          /\ \A i \in 1..Len(open_upvalues') :
                upvalues'[open_upvalues'[i]].location < frame.base_register
          /\ frames' = SubSeq(frames, 1, Len(frames) - 1)
          /\ pc' = "running"
          /\ caller.ip >= 4 /\ CallerCode(-4) = OP_CALL
          /\ frame.base_register = caller.base_register + CallerCode(-3) + 1
          /\ registers'[caller.base_register + CallerCode(-1)] = RetResult
          /\ \A r \in 0..(frame.base_register - 1) :
                r # caller.base_register + CallerCode(-1) => registers'[r] = registers[r]]_vars

\* C27: OP_CALL f, n, d of a closure from a frame with base B pushes a frame with base
\* B + f + 1 and return register B + d that starts at the function's first
\* instruction; registers 0 .. n - 1 of its window hold the n arguments, and the
\* registers from n up, those of the parameters no argument was passed for among
\* them, hold none.
C27_CallOpensCleanWindow ==
    [][Running({OP_CALL}) /\ Reg(Code(1)).type = "closure" /\ CallError(Reg(Code(1))) = "" =>
          LET B == frame.base_register
              f == Code(1)
              n == Code(2)
              d == Code(3)
              arity == closures[Reg(f).v].proto.arity
          IN /\ frames' = Append(Advance(4),
                                 [closure |-> Reg(f).v, ip |-> 0,
                                  base_register |-> B + f + 1, return_register |-> B + d])
             /\ \A i \in 0..(n - 1) : registers'[B + f + 1 + i] = registers[B + f + 1 + i]
             /\ \A i \in n..(arity - 1) : registers'[B + f + 1 + i] = value_none]_vars

\* C28: when the OP_CALL f, 2, d compiled for two(e1, e2) executes, register f holds
\* the closure of two, register f + 1 the value of e1 and register f + 2 the value of
\* e2, whatever the shapes of e1 and e2.
C28_ArgumentsFollowCallee ==
    script.kind = "args" /\ Running({OP_CALL}) /\ Code(2) = 2 =>
        /\ Reg(Code(1)).type = "closure"
        /\ closures[Reg(Code(1)).v].proto.arity = 2
        /\ Reg(Code(1) + 1) = ArgValue(SubSeq(script.ops, 1, 1))
        /\ Reg(Code(1) + 2) = ArgValue(SubSeq(script.ops, 2, 2))

\* C29: the local of a nested fn declaration, local 0 of f, has register 0 of f's frame,
\* and no scratch register is allocated below the locals: from the moment the closure g
\* is in that register, no step of f or of what f calls puts anything else there.
C29_LocalKeepsItsRegister ==
    [][/\ script.kind = "nestedfn"
       /\ Len(frames) >= 2 /\ Len(frames') >= 2
       /\ registers[frames[2].base_register].type = "closure"
       => registers'[frames[2].base_register] = registers[frames[2].base_register]]_vars

\* C30: the upvalue of the captured local c is closed when control leaves the scope of
\* c, by the end of the block, by break or by return, before the register of c is
\* written again: the closure that returns c returns 1, the value c had.
C30_ClosureKeepsCapturedValue ==
    /\ script.kind = "leave"
    /\ Running({OP_RET}) /\ closures[frame.closure].upvalues # <<>> /\ Code(1) > 0
    => RetResult = value_i32(1)

\* the index of the local declared last among those called name, -1 if there is none
MostRecent(locals, name) ==
    IF \E i \in 1..Len(locals) : locals[i].name = name
    THEN (CHOOSE i \in 1..Len(locals) :
              /\ locals[i].name = name
              /\ \A j \in (i + 1)..Len(locals) : locals[j].name # name) - 1
    ELSE -1

\* the functions enclosing K[lvl] that have a local called name
Holders(K, lvl, name) == {l \in 1..(lvl - 1) : MostRecent(K[l].locals, name) # -1}

\* the local that upvalue idx of the function K[lvl] stands for: <<level, index>>
RECURSIVE UpvalueTarget(_, _, _)
UpvalueTarget(K, lvl, idx) ==
    LET desc == K[lvl].function.upvalue_descs[idx + 1]
    IN IF desc.is_local THEN <<lvl - 1, desc.index>>
       ELSE UpvalueTarget(K, lvl - 1, desc.index)

\* C31: an identifier resolves to the local of that name declared last in the
\* current function; if there is none, to an upvalue that stands for the local of
\* that name declared last in the nearest enclosing function that has one, which
\* is then marked captured; otherwise to the global of that name.  Every later
\* resolution of the name as an upvalue in the same function gives the index of
\* the first, and no function's descriptor list holds two equal entries.
C31_NamesResolveInOrder ==
    /\ \A l \in 1..Len(names.K) :
          LET descs == names.K[l].function.upvalue_descs
          IN \A i, j \in 1..Len(descs) : i # j => descs[i] # descs[j]
    /\ names.found.kind # "none" =>
          LET K0 == names.found.before
              lvl == Len(K0)
              name == names.found.name
              local == MostRecent(K0[lvl].locals, name)
              holders == Holders(K0, lvl, name)
          IN IF local # -1
             THEN names.found.kind = "local" /\ names.found.index = local
             ELSE IF holders # {}
             THEN LET l == CHOOSE h \in holders : \A g \in holders : g <= h
                      target == <<l, MostRecent(K0[l].locals, name)>>
                  IN /\ names.found.kind = "upvalue"
                     /\ UpvalueTarget(names.K, lvl, names.found.index) = target
                     /\ names.K[l].locals[target[2] + 1].is_captured
                     /\ names.found.index = names.first[lvl][name]
             ELSE /\ names.found.kind = "global"
                  /\ Cur(names.K).function.constants[names.found.index + 1]
                         = value_string(name)

\* y has been resolved in a closure within a closure after x, to the second upvalue
\* of the inner closure, which stands for the first of the closure around it
C31_Witness ==
    /\ names.found.kind = "upvalue" /\ Len(names.K) = 3
    /\ names.found.index = 1
    /\ ~Cur(names.K).function.upvalue_descs[2].is_local
    /\ Cur(names.K).function.upvalue_descs[2].index = 0

\* C32: with the calls of one thread only, OP_LOAD_GLOBAL of a name a value
\* was stored under yields the value stored last, also when a native is
\* registered under the name, and it yields a native only when nothing was
\* stored under the name.
C32_LoadGlobalPrefersStored ==
    OneThread /\ Thread(1).last.op = "load" =>
        /\ stored[1][Thread(1).last.chars] # value_none =>
               Thread(1).last.value = Thread(1).last.expected
        /\ Thread(1).last.value.type = "native" =>
               Thread(1).last.expected.type = "native"

\* C33: an OP_LOAD_GLOBAL of a name that is neither in the global table nor
\* a registered native ends the run: the dispatch loop stops and mica_run
\* returns false.
C33_UndefinedGlobalStopsRun ==
    [][(/\ Running({OP_LOAD_GLOBAL})
        /\ find_global(proto.constants[Code(1) + 1].v) = 0
        /\ find_native(proto.constants[Code(1) + 1].v) = 0)
       => (pc' = "host" /\ last' = [op |-> "run", result |-> FALSE])]_vars

\* C34: the parser leaves panic mode at a consumed semicolon or at a
\* synchronizing keyword and parses on: of two erroneous statements separated
\* by either, both are reported, and parse returns NULL at the end of input,
\* so that mica_compile returns false.
C34_LaterErrorAlsoReported ==
    (script.kind = "twoerr" /\ pc = "host" /\ last.op = "compile") =>
        /\ err = <<"expected variable name", "expected variable name">>
        /\ ~last.result

\* C35: parse returns for a block whose first token starts no statement and
\* no expression: no iteration of the statement loops of parse and
\* parse_block leaves the parser where it was, so mica_compile comes back to
\* the host.
C35_ParseTerminates ==
    script.kind = "stuck" => pc # "hung"

\* C36: an identifier that is longer than the keyword it begins with is
\* lexed as an identifier: once  let name = 1 print(name)  is compiled, the
\* token after let is a TOK_IDENT and no error is reported, and the run
\* prints 1.
C36_KeywordPrefixIsIdentifier ==
    (script.kind = "ident" /\ last.op \in {"compile", "run"}) =>
        /\ Tokens(IdentSource(script.ops))[2].type = "TOK_IDENT"
        /\ err = <<>>
        /\ Finished => out = <<"1">>

\* an OP_EQ or OP_NE is about to execute on two numeric operands
NumericEquality ==
    /\ Running({OP_EQ, OP_NE})
    /\ Reg(Code(1)).type \in NumericTags
    /\ Reg(Code(2)).type \in NumericTags

\* what OP_LE and OP_GE give for the operands of the instruction
LeAndGe ==
    /\ CompareResult(OP_LE, Reg(Code(1)), Reg(Code(2))).v
    /\ CompareResult(OP_GE, Reg(Code(1)), Reg(Code(2))).v

\* C37 as stated: on numeric operands OP_EQ gives true exactly when OP_LE and
\* OP_GE both do, an integer being promoted to a float as they promote it, and
\* OP_NE gives the opposite.
C37_EqualityPromotes ==
    [][NumericEquality =>
          registers'[frame.base_register + Code(3)]
              = value_bool(LeAndGe = (Code(0) = OP_EQ))]_vars

\* C37: on numeric operands OP_EQ gives true exactly when the operands have
\* the same tag and OP_LE and OP_GE both give true, and OP_NE gives the
\* opposite: an integer and a float are never equal.
C37_EqualityComparesSameTag ==
    [][NumericEquality =>
          registers'[frame.base_register + Code(3)]
              = value_bool((Reg(Code(1)).type = Reg(Code(2)).type /\ LeAndGe)
                               = (Code(0) = OP_EQ))]_vars

\* 1 and 1.0 have been compared: not equal, and each at most the other
C37_Witness ==
    /\ script.kind = "cmp" /\ script.n = 1 /\ script.m = 2
    /\ Finished
    /\ out = <<"false", "true", "true", "true", "false", "false">>

\* the first k of the n elements of data, and None for what is asked beyond
Delivery(data, k) ==
    [i \in 1..k |-> IF i <= Len(data) THEN data[i] ELSE value_none]

\* C38: over an array of n elements that is not modified, iter_next delivers
\* the elements 0 .. n-1 in index order and None from then on, with the cursor
\* staying at n, and iter_has_next answers true exactly while fewer than n
\* elements have been delivered; over a value that is not an array
\* iter_has_next answers false from the start and iter_next returns None.
C38_IteratorDeliversInOrder ==
    iterators # <<>> =>
        LET it == iterators[1]
            data == IF it.source.type = "array" THEN arrays[it.source.v].data ELSE <<>>
            k == Len(walk.delivered)
        IN /\ walk.delivered = Delivery(data, k)
           /\ it.index = IF k < Len(data) THEN k ELSE Len(data)
           /\ \A i \in 1..Len(walk.has) :
                  walk.has[i].answer = (walk.has[i].after < Len(data))

\* an array of three elements has been walked to its end and asked once more
C38_Witness ==
    /\ iterators # <<>>
    /\ iterators[1].source.type = "array"
    /\ walk.delivered = <<value_i32(7), value_i32(8), value_i32(7), value_none>>
    /\ iterators[1].index = 3
    /\ \E i \in 1..Len(walk.has) : walk.has[i].after = 2 /\ walk.has[i].answer
    /\ \E i \in 1..Len(walk.has) : walk.has[i].after = 4 /\ ~walk.has[i].answer

\* C40: whatever the host compiles and runs, and whatever the programs call,
\* the VM has between 0 and MAX_FRAMES frames and no frame has been written
\* past the frame array.
C40_FramesStayInArray ==
    frame_count \in 0..MAX_FRAMES /\ pc # "frames overrun"

\* the dest operand of the OP_CALL that pushed frame i: the byte before the ip
\* the caller resumes at
CallDest(i) == closures[frames[i - 1].closure].proto.code[frames[i - 1].ip]

\* C39: with at most MAX_FRAMES frames, every register the instruction about to
\* execute reads or writes is at an index base_register + operand within
\* 0 .. MAX_REGISTERS - 1, every frame has its base in the register file, and
\* the return register of a called frame is the caller's base plus the dest
\* operand of the call, not a truncation of it.
C39_RegistersStayInFile ==
    frame_count <= MAX_FRAMES =>
        /\ pc = "running" => InFile
        /\ pc # "registers overrun"
        /\ \A i \in 1..Len(frames) : frames[i].base_register \in 0..(MAX_REGISTERS - 1)
        /\ pc = "running" =>
               \A i \in (run_base + 1)..Len(frames) :
                   frames[i].return_register = frames[i - 1].base_register + CallDest(i)

====
